---- MODULE Spec2Model ----
(***************************************************************************)
(* State-machine model of the SocialOS orchestration runtime:              *)
(*   Orchestrator (executeWorkflow, scheduleWorkflow),                     *)
(*   AgentExecutor.execute, MemoryManager.store / retrieve,                *)
(*   PlatformConnectorFactory.createMultiPlatform(...).executeAction.      *)
(* JavaScript is single threaded: one action of the model is one           *)
(* synchronous stretch of code, from the resumption of an await (or the    *)
(* call, or the timer callback) to the next await or return.               *)
(***************************************************************************)
EXTENDS Integers, Sequences, FiniteSets, TLC

(***************************************************************************)
(* Bounds                                                                  *)
(***************************************************************************)
\* the clock stops advancing here
MaxNow == 3

(***************************************************************************)
(* JavaScript values                                                       *)
(***************************************************************************)
Str(s) == [t |-> "string", v |-> s]
NaN == [t |-> "number", v |-> "NaN"]
JsNull == [t |-> "null", v |-> "null"]
Undefined == [t |-> "undefined", v |-> "undefined"]

\* what an agent action may return
Results == {Str("hi"), NaN}
\* what an agent action may throw
ActionErrors == {<<"Error", "boom">>, <<"Error", "oops">>}
NoError == <<"none">>

\* JSON texts, by their literal: a string literal, null, a number literal, or
\* no text at all (JSON.stringify leaves a property holding undefined out)
JsonText(lit, v) == [lit |-> lit, v |-> v]

\* JSON.stringify of a value that is the property of an object
JsonStringify(val) ==
  CASE val.t = "string" -> JsonText("string", val.v)
    [] val.t = "number" ->
         IF val.v = "NaN" THEN JsonText("null", "null") ELSE JsonText("number", val.v)
    [] val.t = "null" -> JsonText("null", "null")
    [] OTHER -> JsonText("absent", "")

\* JSON.parse of such a text, read back as the property of the parsed object
JsonParse(text) ==
  CASE text.lit = "string" -> Str(text.v)
    [] text.lit = "number" -> [t |-> "number", v |-> text.v]
    [] text.lit = "null" -> JsNull
    [] OTHER -> Undefined

(***************************************************************************)
(* Workflows, steps, agents                                                *)
(***************************************************************************)
\* step.condition: absent, or a predicate, given by the results it accepts
NoCondition == [declared |-> FALSE, accepts |-> {}]
Cond(accepts) == [declared |-> TRUE, accepts |-> accepts]

Step(id, agentId, action, condition, memorize) ==
  [id |-> id, agentId |-> agentId, action |-> action,
   condition |-> condition, memorize |-> memorize]

\* step.condition(result, context)
ConditionHolds(condition, result) == result \in condition.accepts

\* the callable members of each agent
AgentActions ==
  [a \in {"a1", "a2"} |->
     IF a = "a1" THEN {"speak", "process"} ELSE {"speak"}]
AgentIds == DOMAIN AgentActions

\* the step lists callers register
WorkflowDefs ==
  [n \in {"greet", "pipe", "dup", "dance"} |->
     CASE n = "greet" ->
            <<Step("s1", "a1", "speak", NoCondition, TRUE)>>
       [] n = "pipe" ->
            <<Step("s1", "a1", "speak", NoCondition, TRUE),
              Step("s2", "a2", "speak", Cond({Str("hi")}), TRUE),
              Step("s3", "a1", "process", NoCondition, TRUE)>>
       [] n = "dup" ->
            <<Step("s1", "a1", "speak", Cond({Str("hi")}), FALSE),
              Step("s1", "a1", "process", NoCondition, TRUE),
              Step("s2", "a2", "speak", NoCondition, FALSE)>>
       [] n = "dance" ->
            <<Step("s1", "a1", "dance", NoCondition, TRUE)>>]
WorkflowNames == DOMAIN WorkflowDefs

\* the result objects of the heap: the one the caller owns and hands in
\* inside a seed context, and the fresh one a run makes for itself
RunIds == <<"r1", "r2">>
Runs == {RunIds[k] : k \in 1..Len(RunIds)}
Refs == Runs \cup {"caller"}
Seeds == {"empty", "withResults"}

TimerIds == {"t1"}

\* setTimeout keeps the delay in a signed 32-bit integer: a delay above
\* 2^31 - 1 ms (or below 1) is set to 1. The clock of the model counts in
\* coarse ticks, so the largest delay a timer honours is scaled down with it.
TIMEOUT_MAX == 2

\* MemoryManager.namespace of the store the Orchestrator is given
Namespace == "socialos"

VARIABLES
  workflows,   \* WorkflowRegistry.workflows: name -> steps
  agents,      \* Orchestrator.agents: the ids of the registered agents
  client,      \* MemoryManager.client: namespaced key -> stored item
  objs,        \* heap: results object -> (step id -> [value, by]);
               \*   by = <<run, step index>> of the writer (history)
  runs,        \* the executeWorkflow calls: position and locals of each
  timers,      \* the setTimeout timers scheduleWorkflow made, with handles
  now,         \* the clock
  fan,         \* the fan-out executeAction call
  exec,        \* one AgentExecutor: executionHistory, observers, its calls
  reg,         \* one WorkflowRegistry with the arrays and step objects it holds
  mem,         \* one VectorMemory with its MemoryManager, index objects, calls
  conn,        \* one connector of each platform: connected flag, calls made
  fac,         \* PlatformConnectorFactory: connectorRegistry, connectors created
  chain,       \* Orchestrator.chainAgents: the calls made and what they threw
  stores,      \* two MemoryManagers of different namespaces over one store
  dog,         \* one CommunityWatchdog with its MentionTracker
  sched        \* one ContentScheduler: its schedule, the calls made on it

vars == <<workflows, agents, client, objs, runs, timers, now, fan, exec, reg, mem, conn, fac, chain, stores, dog, sched>>

(***************************************************************************)
(* MemoryManager                                                           *)
(***************************************************************************)
\* MemoryManager._getKey
GetKey(namespace, key) == namespace \o ":" \o key

\* the key executeWorkflow memorizes a step under
WorkflowKey(workflowName, stepId) == "workflow:" \o workflowName \o ":" \o stepId

\* MemoryManager.store: the text client.set writes, JSON.stringify(memoryItem);
\* `by` is history (which store call wrote it), not part of the text
StoredItem(call) ==
  [key |-> call.key, data |-> JsonStringify(call.data), metadata |-> call.metadata,
   timestamp |-> call.timestamp, version |-> 1, by |-> call.by]

\* ClientSet writing under the bare key, retrieve reading under the namespaced one
ClientSetBareKey(cl, call) ==
  [k \in DOMAIN cl \cup {call.key} |->
     IF k = call.key THEN StoredItem(call) ELSE cl[k]]

ClientSet(cl, call) ==
  LET fullKey == GetKey(Namespace, call.key)
  IN [k \in DOMAIN cl \cup {fullKey} |->
        IF k = fullKey THEN StoredItem(call) ELSE cl[k]]

\* MemoryManager.retrieve: JSON.parse of the text under the key, or null
Retrieve(cl, key) ==
  LET fullKey == GetKey(Namespace, key)
  IN IF fullKey \in DOMAIN cl
     THEN [key |-> cl[fullKey].key, data |-> JsonParse(cl[fullKey].data),
           metadata |-> cl[fullKey].metadata, timestamp |-> cl[fullKey].timestamp,
           version |-> cl[fullKey].version]
     ELSE JsNull

(***************************************************************************)
(* Orchestrator.executeWorkflow                                            *)
(***************************************************************************)
IdleRun ==
  [pc |-> "idle", workflowName |-> "", steps |-> <<>>, idx |-> 0, ref |-> "caller",
   origin |-> "none", timer |-> "none", status |-> "none", error |-> NoError,
   invoked |-> <<>>, wrote |-> <<>>, res |-> <<>>, threw |-> NoError,
   pending |-> {}, stored |-> {}, executors |-> <<>>]

\* new AgentExecutor(agent, this.connector) for step i: each `new` makes an
\* object of its own, told from the others by the step it was made for
NewAgentExecutor(run, i) ==
  [run EXCEPT !.executors = Append(@, [agentId |-> run.steps[i].agentId, step |-> i])]

\* the run ends by throwing: the promise of executeWorkflow rejects with e
Fail(run, i, e) ==
  [run EXCEPT !.pc = "done", !.idx = i, !.status = "failed", !.error = e]

\* the run ends by returning workflowContext
Return(run, i, status) ==
  [run EXCEPT !.pc = "done", !.idx = i, !.status = status]

\* LoopHead with a missing agent passed over instead of failing the run
RECURSIVE LoopHeadSkipsMissingAgent(_, _, _)
LoopHeadSkipsMissingAgent(run, i, ags) ==
  IF i > Len(run.steps) THEN Return(run, i, "completed")
  ELSE LET step == run.steps[i]
       IN IF step.agentId \notin ags
          THEN LoopHeadSkipsMissingAgent(run, i + 1, ags)
          ELSE IF step.action \notin AgentActions[step.agentId]
          THEN Fail(run, i, <<"Action not implemented", step.action, step.agentId>>)
          ELSE [run EXCEPT !.pc = "rateCheck", !.idx = i]

\* The top of the loop body for step i, up to the first await of
\* AgentExecutor.execute: find the agent, make the executor, check that the
\* action is a function of the agent, emit beforeExecution, call the limiter.
LoopHead(run, i, ags) ==
  IF i > Len(run.steps) THEN Return(run, i, "completed")
  ELSE LET step == run.steps[i]
       IN IF step.agentId \notin ags
          THEN Fail(run, i, <<"Agent not found", step.agentId>>)
          ELSE IF step.action \notin AgentActions[step.agentId]
          THEN Fail(NewAgentExecutor(run, i), i,
                    <<"Action not implemented", step.action, step.agentId>>)
          ELSE [NewAgentExecutor(run, i) EXCEPT !.pc = "rateCheck", !.idx = i]

\* executeWorkflow from its call to its first await
StartRun(r, workflowName, seed, origin, timer, wfs, ags) ==
  LET run == [IdleRun EXCEPT !.workflowName = workflowName, !.origin = origin,
                             !.timer = timer,
                             !.ref = IF seed = "withResults" THEN "caller" ELSE r]
  IN IF workflowName \notin DOMAIN wfs
     THEN Fail(run, 0, <<"Workflow not found", workflowName>>)
     ELSE LoopHead([run EXCEPT !.steps = wfs[workflowName]], 1, ags)

\* StoreCall with the key built from the agent id instead of the step id
StoreCallKeyedByAgent(r, run, i, result, time) ==
  [key |-> "workflow:" \o run.workflowName \o ":" \o run.steps[i].agentId, data |-> result,
   metadata |-> [workflow |-> run.workflowName, step |-> run.steps[i].id],
   timestamp |-> time, idx |-> i, by |-> <<r, i>>]

\* the arguments of the memory.store call for step i
StoreCall(r, run, i, result, time) ==
  [key |-> WorkflowKey(run.workflowName, run.steps[i].id), data |-> result,
   metadata |-> [workflow |-> run.workflowName, step |-> run.steps[i].id],
   timestamp |-> time, idx |-> i, by |-> <<r, i>>]

\* AfterResult with the store not awaited: the loop goes on while it is in flight
AfterResultStoreNotAwaited(r, run, result, ags, time) ==
  LET i == run.idx
      step == run.steps[i]
      run1 == [run EXCEPT !.wrote = Append(@, i), !.res = @ @@ (i :> result)]
  IN IF step.condition.declared /\ ~ConditionHolds(step.condition, result)
     THEN Return(run1, i, "aborted")
     ELSE IF step.memorize
     THEN LoopHead([run1 EXCEPT !.pending = @ \cup {StoreCall(r, run, i, result, time)}],
                   i + 1, ags)
     ELSE LoopHead(run1, i + 1, ags)

\* AfterResult with a false condition skipping only the store, not the rest
AfterResultConditionSkipsStore(r, run, result, ags, time) ==
  LET i == run.idx
      step == run.steps[i]
      run1 == [run EXCEPT !.wrote = Append(@, i), !.res = @ @@ (i :> result)]
  IN IF step.condition.declared /\ ~ConditionHolds(step.condition, result)
     THEN LoopHead(run1, i + 1, ags)
     ELSE IF step.memorize
     THEN [run1 EXCEPT !.pc = "store",
                       !.pending = @ \cup {StoreCall(r, run, i, result, time)}]
     ELSE LoopHead(run1, i + 1, ags)

\* After `result = await executor.execute(...)`: the result is already in
\* workflowContext.results; the condition, the store, the next step.
AfterResult(r, run, result, ags, time) ==
  LET i == run.idx
      step == run.steps[i]
      run1 == [run EXCEPT !.wrote = Append(@, i), !.res = @ @@ (i :> result)]
  IN IF step.condition.declared /\ ~ConditionHolds(step.condition, result)
     THEN Return(run1, i, "aborted")
     ELSE IF step.memorize
     THEN [run1 EXCEPT !.pc = "store",
                       !.pending = @ \cup {StoreCall(r, run, i, result, time)}]
     ELSE LoopHead(run1, i + 1, ags)

\* workflowContext.results[step.id] = result
SetResult(obj, id, result, by) ==
  [k \in DOMAIN obj \cup {id} |->
     IF k = id THEN [value |-> result, by |-> by] ELSE obj[k]]

\* ExecuteCatch throwing a new error in place of the one it caught
ExecuteCatchWraps(run, e) == Fail(run, run.idx, <<"Error", "execution failed">>)

\* the catch block of AgentExecutor.execute: record, emit, rethrow
ExecuteCatch(run, e) == Fail(run, run.idx, e)

\* the first run not yet used
FreeRun ==
  LET free == {k \in 1..Len(RunIds) : runs[RunIds[k]].pc = "idle"}
  IN RunIds[CHOOSE k \in free : \A m \in free : k <= m]
HasFreeRun == \E r \in Runs : runs[r].pc = "idle"

\* a caller calls executeWorkflow(workflowName, context)
ExecuteWorkflow(workflowName, seed) ==
  /\ HasFreeRun
  /\ runs' = [runs EXCEPT ![FreeRun] =
                StartRun(FreeRun, workflowName, seed, "direct", "none", workflows, agents)]
  /\ UNCHANGED <<workflows, agents, client, objs, timers, now, fan, exec, reg, mem, conn, fac, chain, stores, dog, sched>>

\* rateLimiter.check(action) resolves: the agent action is invoked
RateCheckPass(r) ==
  /\ runs[r].pc = "rateCheck"
  /\ runs' = [runs EXCEPT ![r].pc = "action", ![r].invoked = Append(@, runs[r].idx)]
  /\ UNCHANGED <<workflows, agents, client, objs, timers, now, fan, exec, reg, mem, conn, fac, chain, stores, dog, sched>>

\* rateLimiter.check(action) rejects: execute's catch block rethrows
RateCheckReject(r) ==
  /\ runs[r].pc = "rateCheck"
  /\ runs' = [runs EXCEPT ![r] = ExecuteCatch(runs[r], <<"Error", "rate limited">>)]
  /\ UNCHANGED <<workflows, agents, client, objs, timers, now, fan, exec, reg, mem, conn, fac, chain, stores, dog, sched>>

\* the agent action returns `result`
ActionReturn(r, result) ==
  /\ runs[r].pc = "action"
  /\ objs' = [objs EXCEPT ![runs[r].ref] =
                SetResult(@, runs[r].steps[runs[r].idx].id, result, <<r, runs[r].idx>>)]
  /\ runs' = [runs EXCEPT ![r] = AfterResult(r, runs[r], result, agents, now)]
  /\ UNCHANGED <<workflows, agents, client, timers, now, fan, exec, reg, mem, conn, fac, chain, stores, dog, sched>>

\* the agent action throws e
ActionThrow(r, e) ==
  /\ runs[r].pc = "action"
  /\ runs' = [runs EXCEPT ![r] = ExecuteCatch([runs[r] EXCEPT !.threw = e], e)]
  /\ UNCHANGED <<workflows, agents, client, objs, timers, now, fan, exec, reg, mem, conn, fac, chain, stores, dog, sched>>

\* a memory.store call of run r completes: the item is written; if the run
\* awaits this call, the loop goes on to the next step
StoreResolve(r, call) ==
  /\ call \in runs[r].pending
  /\ client' = ClientSet(client, call)
  /\ LET run1 == [runs[r] EXCEPT !.pending = @ \ {call}, !.stored = @ \cup {call.idx}]
     IN runs' = [runs EXCEPT ![r] =
                   IF run1.pc = "store" /\ run1.idx = call.idx
                   THEN LoopHead(run1, call.idx + 1, agents)
                   ELSE run1]
  /\ UNCHANGED <<workflows, agents, objs, timers, now, fan, exec, reg, mem, conn, fac, chain, stores, dog, sched>>

\* a memory.store call fails (the embedding service or the backing store):
\* the awaiting run throws
StoreReject(r, call) ==
  /\ call \in runs[r].pending
  /\ LET run1 == [runs[r] EXCEPT !.pending = @ \ {call}]
     IN runs' = [runs EXCEPT ![r] =
                   IF run1.pc = "store" /\ run1.idx = call.idx
                   THEN Fail(run1, call.idx, <<"Error", "store failed">>)
                   ELSE run1]
  /\ UNCHANGED <<workflows, agents, client, objs, timers, now, fan, exec, reg, mem, conn, fac, chain, stores, dog, sched>>

\* Orchestrator.registerAgent
RegisterAgent(a) ==
  /\ a \notin agents
  /\ agents' = agents \cup {a}
  /\ UNCHANGED <<workflows, client, objs, runs, timers, now, fan, exec, reg, mem, conn, fac, chain, stores, dog, sched>>

\* Orchestrator.registerWorkflow -> WorkflowRegistry.register
Register(wfs, name, steps) ==
  IF name \in DOMAIN wfs THEN wfs
  ELSE [n \in DOMAIN wfs \cup {name} |-> IF n = name THEN steps ELSE wfs[n]]

RegisterWorkflow(name) ==
  /\ workflows' = Register(workflows, name, WorkflowDefs[name])
  /\ UNCHANGED <<agents, client, objs, runs, timers, now, fan, exec, reg, mem, conn, fac, chain, stores, dog, sched>>

\* orchestrator.workflows.update(name, steps): the definition is replaced
UpdateWorkflow(name, steps) ==
  /\ name \in DOMAIN workflows
  /\ workflows' = [workflows EXCEPT ![name] = steps]
  /\ UNCHANGED <<agents, client, objs, runs, timers, now, fan, exec, reg, mem, conn, fac, chain, stores, dog, sched>>
\* orchestrator.workflows.remove(name)
RemoveWorkflow(name) ==
  /\ name \in DOMAIN workflows
  /\ workflows' = [n \in DOMAIN workflows \ {name} |-> workflows[n]]
  /\ UNCHANGED <<agents, client, objs, runs, timers, now, fan, exec, reg, mem, conn, fac, chain, stores, dog, sched>>

(***************************************************************************)
(* Orchestrator.scheduleWorkflow                                           *)
(***************************************************************************)
NoTimer ==
  [state |-> "unset", workflowName |-> "", seed |-> "empty", scheduledTime |-> 0,
   setAt |-> 0, fireAt |-> 0, cancelledAt |-> "never", wfs |-> <<>>, ags |-> {}]

\* the scheduledTime argument: absent, or a time around the present, up to
\* one tick further than a timer can count
ScheduledTimes ==
  {[given |-> FALSE, at |-> 0]}
    \cup {[given |-> TRUE, at |-> now + d] : d \in (-1)..(TIMEOUT_MAX + 1)}

\* the delay setTimeout(callback, delay) really waits
TimerDelay(delay) == IF delay > TIMEOUT_MAX \/ delay < 1 THEN 1 ELSE delay

\* ClearTimeout that leaves the timer set
ClearTimeoutLeavesTimer(timer) == timer

\* clearTimeout(timeoutId): a timer that has not run yet never will
ClearTimeout(timer) ==
  IF timer.state = "pending" THEN [timer EXCEPT !.state = "cancelled"] ELSE timer

\* scheduleWorkflow(workflowName, context, scheduledTime) with delay <= 0:
\* it returns the promise of executeWorkflow
ScheduleNow(workflowName, seed, t) ==
  /\ (IF t.given THEN t.at ELSE now) - now <= 0
  /\ HasFreeRun
  /\ runs' = [runs EXCEPT ![FreeRun] =
                StartRun(FreeRun, workflowName, seed, "immediate", "none", workflows, agents)]
  /\ UNCHANGED <<workflows, agents, client, objs, timers, now, fan, exec, reg, mem, conn, fac, chain, stores, dog, sched>>

\* scheduleWorkflow with delay > 0: it sets the timer and returns the handle
\* {workflowName, scheduledTime, cancel}
ScheduleLater(tid, workflowName, seed, t) ==
  /\ t.given /\ t.at - now > 0
  /\ timers[tid].state = "unset"
  /\ timers' = [timers EXCEPT ![tid] =
                  [state |-> "pending", workflowName |-> workflowName, seed |-> seed,
                   scheduledTime |-> t.at, setAt |-> now,
                   fireAt |-> now + TimerDelay(t.at - now),
                   cancelledAt |-> "never", wfs |-> workflows, ags |-> agents]]
  /\ UNCHANGED <<workflows, agents, client, objs, runs, now, fan, exec, reg, mem, conn, fac, chain, stores, dog, sched>>

\* TimerFire running what was registered when the timer was set
TimerFireAsScheduled(tid) ==
  /\ timers[tid].state = "pending"
  /\ now >= timers[tid].fireAt
  /\ HasFreeRun
  /\ timers' = [timers EXCEPT ![tid].state = "fired"]
  /\ runs' = [runs EXCEPT ![FreeRun] =
                StartRun(FreeRun, timers[tid].workflowName, timers[tid].seed,
                         "timer", tid, timers[tid].wfs, timers[tid].ags)]
  /\ UNCHANGED <<workflows, agents, client, objs, now, fan, exec, reg, mem, conn, fac, chain, stores, dog, sched>>

\* the timer callback runs: executeWorkflow(workflowName, context)
TimerFire(tid) ==
  /\ timers[tid].state = "pending"
  /\ now >= timers[tid].fireAt
  /\ HasFreeRun
  /\ timers' = [timers EXCEPT ![tid].state = "fired"]
  /\ runs' = [runs EXCEPT ![FreeRun] =
                StartRun(FreeRun, timers[tid].workflowName, timers[tid].seed,
                         "timer", tid, workflows, agents)]
  /\ UNCHANGED <<workflows, agents, client, objs, now, fan, exec, reg, mem, conn, fac, chain, stores, dog, sched>>

\* the caller calls handle.cancel(); cancelledAt is history (whether the
\* timer had run by then), as is setAt (when the timer was set)
Cancel(tid) ==
  /\ timers[tid].state \in {"pending", "fired"}
  /\ timers[tid].cancelledAt = "never"
  /\ timers' = [timers EXCEPT ![tid] =
                  [ClearTimeout(timers[tid]) EXCEPT !.cancelledAt =
                     IF timers[tid].state = "pending" THEN "beforeFire" ELSE "afterFire"]]
  /\ UNCHANGED <<workflows, agents, client, objs, runs, now, fan, exec, reg, mem, conn, fac, chain, stores, dog, sched>>

\* time passes
Tick ==
  /\ now < MaxNow
  /\ now' = now + 1
  /\ UNCHANGED <<workflows, agents, client, objs, runs, timers, fan, exec, reg, mem, conn, fac, chain, stores, dog, sched>>

(***************************************************************************)
(* PlatformConnectorFactory.createMultiPlatform(platforms).executeAction   *)
(***************************************************************************)
\* Object.keys(connectors): the platforms createMultiPlatform was given
Configured == <<"x", "linkedin", "discord">>
ConfiguredSet == {Configured[k] : k \in 1..Len(Configured)}

\* the methods of the connector create(platform) returns
ConnectorMethods(platform) ==
  CASE platform = "x" -> {"post", "reply", "like", "search", "getTrends"}
    [] platform = "linkedin" -> {"post", "comment", "like", "search"}
    [] platform = "discord" -> {"post", "sendMessage", "reply", "addReaction"}
    [] OTHER -> {"post"}

\* the platforms a caller may name: the configured ones and one that is not
TargetNames == ConfiguredSet \cup {"mastodon"}
\* the longest targetPlatforms list
MaxTargets == 3
TargetLists ==
  UNION {[1..n -> TargetNames] : n \in 0..MaxTargets}
FanActions == {"like", "getTrends"}
\* what a connector call may resolve to, and the messages it may reject with
ConnectorValues == {"v1", "v2"}
ConnectorErrors == {"API error"}

IdleFan ==
  [pc |-> "idle", action |-> "", platforms |-> <<>>, idx |-> 0, results |-> <<>>,
   started |-> <<>>, outcome |-> <<>>, raised |-> FALSE]

ErrorEntry(message) == [kind |-> "error", v |-> message]
ValueEntry(value) == [kind |-> "value", v |-> value]

SetEntry(results, platform, entry) ==
  [p \in DOMAIN results \cup {platform} |->
     IF p = platform THEN entry ELSE results[p]]

\* The loop of executeAction from target i on, up to the next await: a target
\* without a connector is passed over, one without the action gets its error
\* entry, the first one with the action has its call started and awaited.
RECURSIVE FanLoop(_, _)
FanLoop(f, i) ==
  IF i > Len(f.platforms) THEN [f EXCEPT !.pc = "done", !.idx = i]
  ELSE LET platform == f.platforms[i]
       IN IF platform \notin ConfiguredSet THEN FanLoop(f, i + 1)
          ELSE IF f.action \notin ConnectorMethods(platform)
          THEN FanLoop([f EXCEPT !.results = SetEntry(@, platform,
                          ErrorEntry("Action " \o f.action \o " not supported on " \o platform))],
                       i + 1)
          ELSE [f EXCEPT !.pc = "await", !.idx = i, !.started = Append(@, i)]

\* FanCatch throwing the error on: executeAction ends there, rejected
FanCatchRethrows(f, message) == [f EXCEPT !.pc = "done", !.raised = TRUE]

\* the catch block of executeAction: the error becomes the platform's entry
FanCatch(f, message) ==
  FanLoop([f EXCEPT !.results = SetEntry(@, f.platforms[f.idx], ErrorEntry(message))],
          f.idx + 1)

\* executeAction(action, params, targetPlatforms) is called
ExecuteAction(action, targets) ==
  /\ fan.pc = "idle"
  /\ fan' = FanLoop([IdleFan EXCEPT !.action = action, !.platforms = targets], 1)
  /\ UNCHANGED <<workflows, agents, client, objs, runs, timers, now, exec, reg, mem, conn, fac, chain, stores, dog, sched>>

\* executeAction(action, params) without targetPlatforms
ExecuteActionAll(action) ==
  /\ fan.pc = "idle"
  /\ fan' = FanLoop([IdleFan EXCEPT !.action = action, !.platforms = Configured], 1)
  /\ UNCHANGED <<workflows, agents, client, objs, runs, timers, now, exec, reg, mem, conn, fac, chain, stores, dog, sched>>

\* the awaited connector call resolves; outcome is history: what each call
\* of the connectors came to
CallResolve(value) ==
  /\ fan.pc = "await"
  /\ fan' = FanLoop([fan EXCEPT !.results = SetEntry(@, fan.platforms[fan.idx], ValueEntry(value)),
                                !.outcome = @ @@ (fan.idx :> ValueEntry(value))],
                    fan.idx + 1)
  /\ UNCHANGED <<workflows, agents, client, objs, runs, timers, now, exec, reg, mem, conn, fac, chain, stores, dog, sched>>

\* the awaited connector call rejects
CallReject(message) ==
  /\ fan.pc = "await"
  /\ fan' = FanCatch([fan EXCEPT !.outcome = @ @@ (fan.idx :> ErrorEntry(message))], message)
  /\ UNCHANGED <<workflows, agents, client, objs, runs, timers, now, exec, reg, mem, conn, fac, chain, stores, dog, sched>>

(***************************************************************************)
(* AgentExecutor: execute, executeSequence, the execution history          *)
(***************************************************************************)
\* calls in flight do not settle once the history holds this many records
MaxHistory == 2
\* the longest action list given to executeSequence
MaxActions == 2
\* the largest limit given to getExecutionHistory
MaxLimit == 3
\* getExecutionHistory(limit = 10)
DefaultLimit == 10

\* the agent the executor is bound to, and the action names callers use:
\* "dance" is no function of the agent
ExecutorAgent == "a1"
ActionNames == {"speak", "process", "dance"}
ActionLists ==
  UNION {[1..k -> ActionNames] : k \in 0..MaxActions}

\* the lifecycle events, and what an observer that throws throws
Events == {"beforeExecution", "afterExecution", "executionError"}
ObserverError(event) == <<"Error", "observer of " \o event>>
RateLimited == <<"Error", "rate limited">>
ActionNotImplemented(action) == <<"Action not implemented", action, ExecutorAgent>>

\* the context execute is given: what executeSequence threads through it
EmptyContext == [lastAction |-> "", lastResult |-> Undefined]

\* the promise of a call: pending, fulfilled with a value, rejected with an error
Pending == [kind |-> "pending", value |-> Undefined, error |-> NoError]
Fulfilled(value) == [kind |-> "returned", value |-> value, error |-> NoError]
Rejected(e) == [kind |-> "threw", value |-> Undefined, error |-> e]

\* the two execute calls that may be in flight: one made by a caller, one
\* made by executeSequence. trace (what the call did, in order) and raised
\* (what the action or the limiter raised) are history.
Slots == {"direct", "sequence"}
IdleCall ==
  [pc |-> "idle", action |-> "", context |-> EmptyContext, trace |-> <<>>,
   outcome |-> Pending, raised |-> NoError]

IdleSequence ==
  [pc |-> "idle", actions |-> <<>>, k |-> 0, context |-> EmptyContext,
   results |-> <<>>, invoked |-> <<>>, outcome |-> Pending]

NoView ==
  [given |-> FALSE, limit |-> [given |-> FALSE, n |-> 0], records |-> <<>>, of |-> <<>>]

NewExecutor ==
  [executionHistory |-> <<>>, throwing |-> {}, call |-> [c \in Slots |-> IdleCall],
   seq |-> IdleSequence, view |-> NoView]

\* the records execute pushes
SuccessRecord(action, result) ==
  [agentId |-> ExecutorAgent, action |-> action, success |-> TRUE,
   result |-> result, error |-> ""]
FailureRecord(action, e) ==
  [agentId |-> ExecutorAgent, action |-> action, success |-> FALSE,
   result |-> Undefined, error |-> e[2]]

\* EventEmitter.emit runs the listeners inside the call of emit: what one of
\* them throws comes out of emit
EmitThrows(ex, event) == event \in ex.throwing

\* a call ends: its promise settles
Settle(ex, c, step, outcome) ==
  [ex EXCEPT !.call[c].pc = "done", !.call[c].trace = @ \o step,
             !.call[c].outcome = outcome]

\* ExecuteHead with the event emitted before the agent is looked at
ExecuteHeadEmitsFirst(ex, c, action, context) ==
  LET ex1 == [ex EXCEPT !.call[c] =
                [IdleCall EXCEPT !.action = action, !.context = context,
                                 !.trace = <<"beforeExecution">>]]
  IN IF action \notin AgentActions[ExecutorAgent]
     THEN Settle(ex1, c, <<>>, Rejected(ActionNotImplemented(action)))
     ELSE IF EmitThrows(ex1, "beforeExecution")
     THEN Settle(ex1, c, <<>>, Rejected(ObserverError("beforeExecution")))
     ELSE [ex1 EXCEPT !.call[c].pc = "rateCheck"]

\* execute from its call to its first await: the action must be a function
\* of the agent; beforeExecution is emitted outside the try block; then the
\* limiter is asked
ExecuteHead(ex, c, action, context) ==
  LET ex1 == [ex EXCEPT !.call[c] =
                [IdleCall EXCEPT !.action = action, !.context = context]]
  IN IF action \notin AgentActions[ExecutorAgent]
     THEN Settle(ex1, c, <<>>, Rejected(ActionNotImplemented(action)))
     ELSE IF EmitThrows(ex1, "beforeExecution")
     THEN Settle(ex1, c, <<"beforeExecution">>,
                 Rejected(ObserverError("beforeExecution")))
     ELSE [ex1 EXCEPT !.call[c].pc = "rateCheck",
                      !.call[c].trace = <<"beforeExecution">>]

\* the catch block of execute: push the failure record, emit executionError,
\* throw what was caught
ExecuteCatchBlock(ex, c, e) ==
  LET ex1 == [ex EXCEPT !.executionHistory =
                          Append(@, FailureRecord(ex.call[c].action, e))]
      did == <<"record", "executionError">>
  IN IF EmitThrows(ex1, "executionError")
     THEN Settle(ex1, c, did, Rejected(ObserverError("executionError")))
     ELSE Settle(ex1, c, did, Rejected(e))

\* ExecuteTryBlock with afterExecution emitted before the record is pushed
ExecuteTryBlockEmitsFirst(ex, c, result) ==
  IF EmitThrows(ex, "afterExecution")
  THEN ExecuteCatchBlock([ex EXCEPT !.call[c].trace = @ \o <<"afterExecution">>],
                         c, ObserverError("afterExecution"))
  ELSE Settle([ex EXCEPT !.executionHistory =
                           Append(@, SuccessRecord(ex.call[c].action, result))],
              c, <<"afterExecution", "record", "return">>, Fulfilled(result))

\* the try block of execute after the action returned: push the success
\* record, emit afterExecution, return the result
ExecuteTryBlock(ex, c, result) ==
  LET ex1 == [ex EXCEPT !.executionHistory =
                          Append(@, SuccessRecord(ex.call[c].action, result)),
                        !.call[c].trace = @ \o <<"record", "afterExecution">>]
  IN IF EmitThrows(ex1, "afterExecution")
     THEN ExecuteCatchBlock(ex1, c, ObserverError("afterExecution"))
     ELSE Settle(ex1, c, <<"return">>, Fulfilled(result))

\* the loop of executeSequence at action k: past the list it returns the
\* results; otherwise it calls execute, which may throw before its first await
SequenceLoop(ex, k) ==
  IF k > Len(ex.seq.actions)
  THEN [ex EXCEPT !.seq.pc = "done", !.seq.k = k,
                  !.seq.outcome = [kind |-> "returned", value |-> ex.seq.results,
                                   error |-> NoError]]
  ELSE LET ex1 == ExecuteHead(ex, "sequence", ex.seq.actions[k], ex.seq.context)
           ex2 == [ex1 EXCEPT !.seq.k = k, !.seq.pc = "running"]
       IN IF ex1.call["sequence"].pc = "done"
          THEN [ex2 EXCEPT !.seq.pc = "done",
                           !.seq.outcome = ex1.call["sequence"].outcome]
          ELSE ex2

\* executeSequence after `await this.execute(action, context)` settled
SequenceResume(ex) ==
  LET call == ex.call["sequence"]
      result == call.outcome.value
  IN IF call.outcome.kind = "threw"
     THEN [ex EXCEPT !.seq.pc = "done", !.seq.outcome = call.outcome]
     ELSE SequenceLoop(
            [ex EXCEPT !.seq.results = Append(@, result),
                       !.seq.context =
                         [lastAction |-> call.action, lastResult |-> result]],
            ex.seq.k + 1)

\* whoever awaits the call of slot c goes on once it has settled
Resume(ex, c) ==
  IF c = "sequence" /\ ex.call[c].pc = "done" THEN SequenceResume(ex) ELSE ex

\* Array.prototype.slice(start): a negative start counts from the end
Slice(arr, start) ==
  LET len == Len(arr)
      k == IF start < 0
           THEN (IF len + start > 0 THEN len + start ELSE 0)
           ELSE (IF start < len THEN start ELSE len)
  IN SubSeq(arr, k + 1, len)

\* Array.prototype.reverse, here on the copy slice made
Reverse(arr) == [i \in 1..Len(arr) |-> arr[Len(arr) + 1 - i]]

\* the limit argument of getExecutionHistory: left out, or a number
Limits ==
  {[given |-> FALSE, n |-> 0]} \cup {[given |-> TRUE, n |-> n] : n \in 0..MaxLimit}
LimitOf(limit) == IF limit.given THEN limit.n ELSE DefaultLimit

\* AgentExecutor.getExecutionHistory
ExecutionHistoryView(history, limit) == Reverse(Slice(history, -limit))

ExecUnchanged ==
  UNCHANGED <<workflows, agents, client, objs, runs, timers, now, fan, reg, mem, conn, fac, chain, stores, dog, sched>>

\* executor.on(event, callback), with a callback that throws; a callback that
\* returns leaves no mark on the executor
On(event) ==
  /\ event \notin exec.throwing
  /\ exec' = [exec EXCEPT !.throwing = @ \cup {event}]
  /\ ExecUnchanged

\* a caller calls execute(action, context)
Execute(action) ==
  /\ exec.call["direct"].pc \in {"idle", "done"}
  /\ exec' = ExecuteHead(exec, "direct", action, EmptyContext)
  /\ ExecUnchanged

\* a caller calls executeSequence(actions, {})
ExecuteSequence(actions) ==
  /\ exec.seq.pc \in {"idle", "done"}
  /\ exec' = SequenceLoop(
               [exec EXCEPT !.seq = [IdleSequence EXCEPT !.actions = actions],
                            !.call["sequence"] = IdleCall], 1)
  /\ ExecUnchanged

\* rateLimiter.check(action) resolves: the agent action is called
CheckResolve(c) ==
  /\ exec.call[c].pc = "rateCheck"
  /\ exec' = [exec EXCEPT
                !.call[c].pc = "action",
                !.call[c].trace = @ \o <<"rateCheck", "invoke">>,
                !.seq.invoked =
                  IF c = "sequence"
                  THEN Append(@, [action |-> exec.call[c].action,
                                  context |-> exec.call[c].context])
                  ELSE @]
  /\ ExecUnchanged

\* rateLimiter.check(action) rejects: the catch block runs
CheckReject(c) ==
  /\ exec.call[c].pc = "rateCheck"
  /\ Len(exec.executionHistory) < MaxHistory
  /\ exec' = Resume(ExecuteCatchBlock(
                      [exec EXCEPT !.call[c].trace = @ \o <<"rateCheck">>],
                      c, RateLimited), c)
  /\ ExecUnchanged

\* the agent action returns
AgentReturn(c, result) ==
  /\ exec.call[c].pc = "action"
  /\ Len(exec.executionHistory) < MaxHistory
  /\ exec' = Resume(ExecuteTryBlock(exec, c, result), c)
  /\ ExecUnchanged

\* the agent action throws
AgentThrow(c, e) ==
  /\ exec.call[c].pc = "action"
  /\ Len(exec.executionHistory) < MaxHistory
  /\ exec' = Resume(ExecuteCatchBlock([exec EXCEPT !.call[c].raised = e], c, e), c)
  /\ ExecUnchanged

\* a caller reads the history: what it got and what the history was
GetExecutionHistory(limit) ==
  /\ exec' = [exec EXCEPT
                !.view = [given |-> TRUE, limit |-> limit,
                          records |-> ExecutionHistoryView(exec.executionHistory,
                                                           LimitOf(limit)),
                          of |-> exec.executionHistory]]
  /\ ExecUnchanged

\* AgentExecutor.clearExecutionHistory
ClearExecutionHistory ==
  /\ exec' = [exec EXCEPT !.executionHistory = <<>>]
  /\ ExecUnchanged

(***************************************************************************)
(* WorkflowRegistry, with the arrays and step objects its definitions hold *)
(***************************************************************************)
\* the longest step list a caller builds or grows by hand
MaxSteps == 1
\* the longest list of member names given to compose
MaxMembers == 2

RegistryNames == {"a", "b", "c"}
\* the names callers give to the clones and composites they make
CopyNames == {"c"}
MemberLists == UNION {[1..k -> RegistryNames] : k \in 0..MaxMembers}

\* the step objects callers make, by identity, and the arrays of the heap
StepObjects == {"o1", "o2"}
\* the array literals callers hand to register and update
StepLists == UNION {[1..k -> StepObjects] : k \in 0..MaxSteps}
\* the values callers assign to the action field of a step object
StepActions == {"speak", "process"}

\* the errors the registry throws
AlreadyRegistered(name) == <<"Workflow is already registered", name>>
DoesNotExist(name) == <<"Workflow does not exist", name>>
SourceDoesNotExist(name) == <<"Source workflow does not exist", name>>
TargetAlreadyExists(name) == <<"Target workflow already exists", name>>

\* new WorkflowRegistry(); threw (what the last call on the registry threw)
\* and present (the names registered by a call that returned and not removed
\* since by a call that returned) are history
NewRegistry ==
  [workflows |-> <<>>,
   arrays |-> <<>>,
   objects |-> [o \in StepObjects |->
                  IF o = "o1" THEN Step("s1", "a1", "speak", NoCondition, TRUE)
                  ELSE Step("s2", "a2", "speak", NoCondition, FALSE)],
   present |-> {},
   threw |-> NoError]

\* a new array, made for the definition `name`: no other definition holds
\* it; the identities are told apart by the definition they were made for
NewArray(rg, name) == "array of " \o name

\* this.workflows.set(name, definition), the definition holding array `arr`
\* with the content `content`; arrays no definition holds any more are dropped
MapSet(rg, definition, content) ==
  LET wfs == [n \in DOMAIN rg.workflows \cup {definition.name} |->
                IF n = definition.name THEN definition ELSE rg.workflows[n]]
      held == {wfs[n].steps : n \in DOMAIN wfs}
  IN [rg EXCEPT !.workflows = wfs,
                !.arrays = [x \in held |->
                              IF x = definition.steps THEN content ELSE rg.arrays[x]]]

\* this.workflows.delete(name)
MapDelete(rg, name) ==
  LET wfs == [n \in DOMAIN rg.workflows \ {name} |-> rg.workflows[n]]
      held == {wfs[n].steps : n \in DOMAIN wfs}
  IN [rg EXCEPT !.workflows = wfs, !.arrays = [x \in held |-> rg.arrays[x]]]

\* new Date()
Date(time) == [t |-> "date", v |-> time]

\* a definition; clonedFrom "" and updatedAt undefined: the property is not there
Definition(name, arr, clonedFrom, createdAt, updatedAt) ==
  [name |-> name, steps |-> arr, clonedFrom |-> clonedFrom,
   createdAt |-> Date(createdAt), updatedAt |-> updatedAt]

\* WorkflowRegistry.get
RegistryGet(rg, name) ==
  IF name \in DOMAIN rg.workflows THEN rg.workflows[name] ELSE JsNull

\* WorkflowRegistry.listWorkflows, as the set of the names it lists
ListWorkflows(rg) == DOMAIN rg.workflows

\* the step list of a definition as a reader sees it: the objects, in order,
\* and the fields of each
StepsOf(rg, name) == rg.arrays[rg.workflows[name].steps]
StepValues(rg, name) ==
  [i \in DOMAIN StepsOf(rg, name) |-> rg.objects[StepsOf(rg, name)[i]]]

\* a call on the registry throws: nothing but the record of the call changes
Throw(rg, error) == [rg EXCEPT !.threw = error]
\* a call on the registry returns
Done(rg, present) == [rg EXCEPT !.threw = NoError, !.present = present]

\* RegistryRegister without the check that the name is free
RegistryRegisterOverwrites(rg, name, steps, time) ==
  Done(MapSet(rg, Definition(name, NewArray(rg, name), "", time, Undefined), steps),
       rg.present \cup {name})

\* WorkflowRegistry.register
RegistryRegister(rg, name, steps, time) ==
  IF name \in DOMAIN rg.workflows
  THEN Throw(rg, AlreadyRegistered(name))
  ELSE Done(MapSet(rg, Definition(name, NewArray(rg, name), "", time, Undefined), steps),
            rg.present \cup {name})

\* WorkflowRegistry.update
RegistryUpdate(rg, name, steps, time) ==
  IF name \notin DOMAIN rg.workflows
  THEN Throw(rg, DoesNotExist(name))
  ELSE Done(MapSet(rg, [rg.workflows[name] EXCEPT !.steps = NewArray(rg, name),
                                                  !.updatedAt = Date(time)],
                   steps),
            rg.present)

\* WorkflowRegistry.remove
RegistryRemove(rg, name) ==
  IF name \notin DOMAIN rg.workflows
  THEN Throw(rg, DoesNotExist(name))
  ELSE Done(MapDelete(rg, name), rg.present \ {name})

\* RegistryClone without the check that the target is free
RegistryCloneOverwrites(rg, sourceName, targetName, time) ==
  IF RegistryGet(rg, sourceName) = JsNull
  THEN Throw(rg, SourceDoesNotExist(sourceName))
  ELSE Done(MapSet(rg, Definition(targetName, NewArray(rg, targetName), sourceName,
                                  time, Undefined),
                   StepsOf(rg, sourceName)),
            rg.present \cup {targetName})

\* WorkflowRegistry.clone: a new array holding the step objects of the source
RegistryClone(rg, sourceName, targetName, time) ==
  IF RegistryGet(rg, sourceName) = JsNull
  THEN Throw(rg, SourceDoesNotExist(sourceName))
  ELSE IF targetName \in DOMAIN rg.workflows
  THEN Throw(rg, TargetAlreadyExists(targetName))
  ELSE Done(MapSet(rg, Definition(targetName, NewArray(rg, targetName), sourceName,
                                  time, Undefined),
                   StepsOf(rg, sourceName)),
            rg.present \cup {targetName})

\* ComposeLoop putting the steps of each member before the ones it has
RECURSIVE ComposeLoopPrepends(_, _, _, _)
ComposeLoopPrepends(rg, workflowNames, k, compositeSteps) ==
  IF k > Len(workflowNames) THEN [error |-> NoError, steps |-> compositeSteps]
  ELSE IF RegistryGet(rg, workflowNames[k]) = JsNull
  THEN [error |-> DoesNotExist(workflowNames[k]), steps |-> compositeSteps]
  ELSE ComposeLoopPrepends(rg, workflowNames, k + 1,
                           StepsOf(rg, workflowNames[k]) \o compositeSteps)

\* the loop of compose from the k-th member name on
RECURSIVE ComposeLoop(_, _, _, _)
ComposeLoop(rg, workflowNames, k, compositeSteps) ==
  IF k > Len(workflowNames) THEN [error |-> NoError, steps |-> compositeSteps]
  ELSE IF RegistryGet(rg, workflowNames[k]) = JsNull
  THEN [error |-> DoesNotExist(workflowNames[k]), steps |-> compositeSteps]
  ELSE ComposeLoop(rg, workflowNames, k + 1,
                   compositeSteps \o StepsOf(rg, workflowNames[k]))

\* RegistryCompose putting the steps of each member before the ones it has
RegistryComposePrepends(rg, newName, workflowNames, time) ==
  LET loop == ComposeLoopPrepends(rg, workflowNames, 1, <<>>)
  IN IF loop.error # NoError
     THEN Throw(rg, loop.error)
     ELSE RegistryRegister(rg, newName, loop.steps, time)

\* WorkflowRegistry.compose
RegistryCompose(rg, newName, workflowNames, time) ==
  LET loop == ComposeLoop(rg, workflowNames, 1, <<>>)
  IN IF loop.error # NoError
     THEN Throw(rg, loop.error)
     ELSE RegistryRegister(rg, newName, loop.steps, time)

RegUnchanged ==
  UNCHANGED <<workflows, agents, client, objs, runs, timers, now, fan, exec, mem, conn, fac, chain, stores, dog, sched>>

RegisterCall(name, steps) ==
  /\ reg' = RegistryRegister(reg, name, steps, now)
  /\ RegUnchanged

UpdateCall(name, steps) ==
  /\ reg' = RegistryUpdate(reg, name, steps, now)
  /\ RegUnchanged

RemoveCall(name) ==
  /\ reg' = RegistryRemove(reg, name)
  /\ RegUnchanged

CloneCall(sourceName, targetName) ==
  /\ reg' = RegistryClone(reg, sourceName, targetName, now)
  /\ RegUnchanged

\* the composite stays within MaxMembers lists of MaxSteps steps
ComposeCall(newName, workflowNames) ==
  /\ Len(ComposeLoop(reg, workflowNames, 1, <<>>).steps) <= MaxMembers * MaxSteps
  /\ reg' = RegistryCompose(reg, newName, workflowNames, now)
  /\ RegUnchanged

\* a caller changes what get(name) gave it: get(name).steps.push(step), up
\* to one step more than the lists callers register
PushStep(name, o) ==
  /\ name \in DOMAIN reg.workflows
  /\ Len(StepsOf(reg, name)) <= MaxSteps
  /\ reg' = [reg EXCEPT !.arrays[reg.workflows[name].steps] = Append(@, o),
                        !.threw = NoError]
  /\ RegUnchanged

\* get(name).steps.pop()
PopStep(name) ==
  /\ name \in DOMAIN reg.workflows
  /\ StepsOf(reg, name) # <<>>
  /\ reg' = [reg EXCEPT !.arrays[reg.workflows[name].steps] =
                          SubSeq(@, 1, Len(@) - 1),
                        !.threw = NoError]
  /\ RegUnchanged

\* get(name).steps.reverse()
ReverseSteps(name) ==
  /\ name \in DOMAIN reg.workflows
  /\ Len(StepsOf(reg, name)) > 1
  /\ reg' = [reg EXCEPT !.arrays[reg.workflows[name].steps] = Reverse(@),
                        !.threw = NoError]
  /\ RegUnchanged

\* get(name).steps[i].action = action
SetStepAction(name, i, action) ==
  /\ name \in DOMAIN reg.workflows
  /\ i \in DOMAIN StepsOf(reg, name)
  /\ reg' = [reg EXCEPT !.objects[StepsOf(reg, name)[i]].action = action,
                        !.threw = NoError]
  /\ RegUnchanged

(***************************************************************************)
(* VectorMemory and the MemoryManager it owns                              *)
(***************************************************************************)
\* the keys callers use in bulk: "k1", "k2", ... up to this many
MaxKeys == 102
\* callers of the small calls stop adding documents to a vector store that
\* holds this many, and updating a record that has this version
MaxDocs == 2
MaxVersion == 3

\* MemoryManager.list(prefix = '', limit = 100)
ListLimit == 100
\* VectorMemory.similaritySearch(query, k = 5, filters = {})
DefaultK == 5
\* VectorMemory.namespace, which its MemoryManager is given
VectorNamespace == "socialos-vector"

KeyName(n) == "k" \o ToString(n)
\* the keys of the small calls, and what is stored under them
MemoryKeys == {KeyName(1)}
MemoryData == {Str("hi"), NaN}

\* a metadata object, by the fields read here; "" and 0 stand for a field
\* the object does not have
Metadata(source, version) == [source |-> source, version |-> version]
NoMetadata == Metadata("", 0)
MetadataInputs == {NoMetadata, Metadata("feed", 0)}
\* { ...a, ...b }
Spread(a, b) ==
  [source |-> IF b.source # "" THEN b.source ELSE a.source,
   version |-> IF b.version # 0 THEN b.version ELSE a.version]

\* typeof data === 'string' ? data : JSON.stringify(data)
Text(data) == IF data.t = "string" THEN data.v ELSE JsonStringify(data).v

\* MemoryManager.store: memoryItem
MemoryItem(key, data, metadata, timestamp) ==
  [key |-> key, data |-> data, metadata |-> metadata, timestamp |-> timestamp,
   version |-> 1, embedding |-> FALSE]
\* JSON.stringify(memoryItem) and JSON.parse of that text
ItemText(item) == [item EXCEPT !.data = JsonStringify(item.data)]
ItemParse(text) == [text EXCEPT !.data = JsonParse(text.data)]

\* A key-value store (the Map of the fallback, or the keys of the remote
\* store): entries in insertion order, as a Map iterates them
MapPut(entries, key, value) ==
  IF \E i \in DOMAIN entries : entries[i].key = key
  THEN [i \in DOMAIN entries |->
          IF entries[i].key = key THEN [key |-> key, value |-> value] ELSE entries[i]]
  ELSE Append(entries, [key |-> key, value |-> value])
MapHas(entries, key) == \E i \in DOMAIN entries : entries[i].key = key
MapGet(entries, key) ==
  entries[CHOOSE i \in DOMAIN entries : entries[i].key = key].value
MapRemove(entries, key) ==
  SelectSeq(entries, LAMBDA e : e.key # key)
MapKeys(entries) == [i \in DOMAIN entries |-> entries[i].key]

\* Array.prototype.slice(0, limit)
Take(arr, limit) == SubSeq(arr, 1, IF Len(arr) < limit THEN Len(arr) ELSE limit)

\* a Document of the vector store; key "" and timestamp -1 stand for a
\* metadata object without that field
Document(pageContent, key, metadata, timestamp) ==
  [pageContent |-> pageContent,
   metadata |-> [key |-> key, source |-> metadata.source, version |-> metadata.version,
                 timestamp |-> timestamp]]
\* the document VectorMemory.initialize makes a new vector store from
InitDocument == Document("Vector store initialization", "", Metadata("initialization", 0), -1)
\* VectorMemory.delete: the documents of the store it makes, one for each
\* listed memory but the deleted one
RebuildDocuments(allMemories, key) ==
  LET kept == SelectSeq(allMemories, LAMBDA memory : memory.key # key)
  IN [i \in DOMAIN kept |->
        Document(Text(kept[i].data), kept[i].key, kept[i].metadata, -1)]

\* what the libraries and the remote store reject with
LibraryError == <<"Error", "library">>
RemoteError == <<"Error", "remote store">>

\* The calls on the VectorMemory that may be in flight together. Of a call:
\* op, the arguments, pc (the label it is at), wait (whether it awaits a
\* library or the remote store there), ret (the labels its callers go on
\* at), the locals; and as history prior (the version stored under the key
\* when the call began), space (the documents a search found in the store it
\* searched), pre (the documents of the vector store when a delete began, if
\* there was one) and swapped (whether the delete has assigned the new one).
MemorySlots == {"c1", "c2"}
IdleMemoryCall ==
  [op |-> "none", pc |-> "idle", wait |-> FALSE, ret |-> <<>>,
   key |-> "", data |-> Undefined, metadata |-> NoMetadata, k |-> 0,
   item |-> JsNull, existing |-> JsNull, keys |-> <<>>, list |-> <<>>,
   docs |-> <<>>, target |-> 0, found |-> <<>>, outcome |-> Pending,
   prior |-> 0, space |-> <<>>, pre |-> [known |-> FALSE, docs |-> <<>>],
   swapped |-> FALSE]

\* After the constructors: this.client is the Redis client whose connect()
\* _initRedis awaits, nothing is in the fallback Map, the vector store is
\* null, no index file is on disk. indexes is the heap of vector store
\* objects; used is history: the backends the operations ran against.
NewMemory ==
  [client |-> "redis", link |-> "connecting", redis |-> <<>>, map |-> <<>>,
   initialized |-> FALSE, vectorStore |-> 0, indexes |-> <<>>,
   disk |-> [saved |-> FALSE, docs |-> <<>>],
   calls |-> [s \in MemorySlots |-> IdleMemoryCall], used |-> {}]

\* the content of the backend this.client stands for
Backend(m) == IF m.client = "map" THEN m.map ELSE m.redis

\* a new vector store object holding docs; objects nothing refers to any
\* more are dropped and their places in the heap used again
Referenced(m) ==
  {m.vectorStore} \cup {m.calls[s].target : s \in {t \in MemorySlots : m.calls[t].pc # "done"}}
Collect(m) ==
  [m EXCEPT !.indexes = [i \in DOMAIN m.indexes |->
                           IF i \in Referenced(m) THEN m.indexes[i] ELSE <<>>]]
NewIndex(m, docs) ==
  LET free == {i \in DOMAIN m.indexes : i \notin Referenced(m)}
      id == IF free = {} THEN Len(m.indexes) + 1
            ELSE CHOOSE i \in free : \A j \in free : i <= j
  IN Collect([m EXCEPT !.indexes = [i \in DOMAIN m.indexes \cup {id} |->
                                      IF i = id THEN docs ELSE m.indexes[i]],
                       !.vectorStore = id])

\* the call goes on from label at its next turn / once what it awaits settles
MemAt(m, s, label) == [m EXCEPT !.calls[s].pc = label, !.calls[s].wait = FALSE]
MemAwait(m, s, label) == [m EXCEPT !.calls[s].pc = label, !.calls[s].wait = TRUE]
\* the promise of the call settles: its locals are gone, the arguments and
\* the history stay
Settled(c, outcome) ==
  [IdleMemoryCall EXCEPT !.op = c.op, !.pc = "done", !.key = c.key, !.data = c.data,
                         !.outcome = outcome, !.prior = c.prior, !.space = c.space,
                         !.pre = c.pre, !.swapped = c.swapped]
\* the function the call is in returns: its caller awaits it, and goes on at
\* its next turn; the outermost one fulfils the promise of the call
MemReturn(m, s, value) ==
  LET c == m.calls[s]
  IN IF c.ret = <<>>
     THEN Collect([m EXCEPT !.calls[s] = Settled(c, Fulfilled(value))])
     ELSE [m EXCEPT !.calls[s].pc = Head(c.ret), !.calls[s].wait = FALSE,
                    !.calls[s].ret = Tail(c.ret)]
\* an error thrown or a rejection awaited: no function of these classes
\* catches it, so the promise of the call rejects with it
MemThrow(m, s, e) ==
  Collect([m EXCEPT !.calls[s] = Settled(m.calls[s], Rejected(e))])

\* MemoryManager.list on the fallback Map: the first `limit` values whose key
\* starts with the namespace prefix (every key of this Map does)
MapList(entries, limit) ==
  LET limited == Take(entries, limit)
  IN [i \in DOMAIN limited |-> ItemParse(limited[i].value)]
\* the end of MemoryManager.list on the remote store: mGet of the limited
\* keys, the values that are there parsed
RemoteList(entries, limitedKeys) ==
  LET there == SelectSeq(limitedKeys, LAMBDA key : MapHas(entries, key))
  IN [i \in DOMAIN there |-> ItemParse(MapGet(entries, there[i]))]
\* MemoryManager.retrieve: result ? JSON.parse(result) : null
Parsed(entries, fullKey) ==
  IF MapHas(entries, fullKey) THEN ItemParse(MapGet(entries, fullKey)) ELSE JsNull
IsItem(value) == "key" \in DOMAIN value
\* MemoryManager.update: the metadata it stores when the key is there
UpdatedMetadata(existing, metadata) ==
  LET merged == Spread(existing.metadata, metadata)
      version == IF existing.metadata.version # 0 THEN existing.metadata.version ELSE 1
  IN [merged EXCEPT !.version = version + 1]

\* The call in slot s runs from the label it is at until its next await,
\* return or throw. A function called and awaited starts in the same turn
\* (MemCall); the caller goes on in a later turn, after it returned.
RECURSIVE MemRun(_, _)
MemCall(m, s, entry, back) ==
  MemRun([m EXCEPT !.calls[s].pc = entry, !.calls[s].ret = <<back>> \o @], s)
MemRun(m, s) ==
  LET c == m.calls[s]
      fullKey == GetKey(VectorNamespace, c.key)
      checked == [m EXCEPT !.used = @ \cup {m.client}]
  IN CASE c.pc = "store" ->
            IF ~m.initialized THEN MemCall(m, s, "initialize", "store.1")
            ELSE MemRun(MemAt(m, s, "store.1"), s)
       [] c.pc = "store.1" -> MemCall(m, s, "mm.store", "store.2")
       [] c.pc = "store.2" ->
            MemAwait([m EXCEPT !.calls[s].target = m.vectorStore,
                               !.calls[s].docs =
                                 <<Document(Text(c.data), c.key, c.metadata, now)>>],
                     s, "addDocuments")
       [] c.pc = "store.3" ->
            MemReturn(m, s, [key |-> c.key, data |-> c.data, metadata |-> c.metadata])
       [] c.pc = "similaritySearch" ->
            IF ~m.initialized THEN MemCall(m, s, "initialize", "similaritySearch.1")
            ELSE MemRun(MemAt(m, s, "similaritySearch.1"), s)
       [] c.pc = "similaritySearch.1" ->
            MemAwait([m EXCEPT !.calls[s].target = m.vectorStore], s,
                     "vectorStore.similaritySearch")
       [] c.pc = "retrieve" -> MemCall(m, s, "mm.retrieve", "retrieve.1")
       [] c.pc = "retrieve.1" -> MemReturn(m, s, c.existing)
       [] c.pc = "update" -> MemCall(m, s, "delete", "update.1")
       [] c.pc = "update.1" -> MemCall(m, s, "store", "update.2")
       [] c.pc = "update.2" ->
            MemReturn(m, s, [key |-> c.key, data |-> c.data, metadata |-> c.metadata])
       [] c.pc = "delete" -> MemCall(m, s, "mm.delete", "delete.1")
       [] c.pc = "delete.1" -> MemCall(m, s, "mm.list", "delete.2")
       [] c.pc = "delete.2" ->
            MemAwait([m EXCEPT !.calls[s].docs = RebuildDocuments(c.list, c.key)],
                     s, "fromTexts")
       [] c.pc = "delete.3" -> MemReturn(m, s, Undefined)
       [] c.pc = "initialize" ->
            IF m.initialized THEN MemReturn(m, s, Undefined)
            ELSE MemAwait(m, s, "mkdir")
       [] c.pc = "save" ->
            IF ~m.initialized THEN MemCall(m, s, "initialize", "save.1")
            ELSE MemRun(MemAt(m, s, "save.1"), s)
       [] c.pc = "save.1" ->
            MemAwait([m EXCEPT !.calls[s].target = m.vectorStore], s, "vectorStore.save")
       [] c.pc = "mm.store" ->
            LET m1 == [m EXCEPT !.calls[s].item =
                         MemoryItem(c.key, c.data, c.metadata, now)]
            IN IF c.data.t = "string" THEN MemAwait(m1, s, "embedQuery")
               ELSE MemRun(MemAt(m1, s, "mm.store.1"), s)
       [] c.pc = "mm.store.1" ->
            IF m.client = "map"
            THEN MemReturn([checked EXCEPT !.map = MapPut(@, fullKey, ItemText(c.item))],
                           s, c.item)
            ELSE MemAwait(checked, s, "client.set")
       [] c.pc = "mm.retrieve" ->
            IF m.client = "map"
            THEN MemReturn([checked EXCEPT !.calls[s].existing = Parsed(m.map, fullKey)],
                           s, Parsed(m.map, fullKey))
            ELSE MemAwait(checked, s, "client.get")
       [] c.pc = "mm.update" -> MemCall(m, s, "mm.retrieve", "mm.update.1")
       [] c.pc = "mm.update.1" ->
            IF ~IsItem(c.existing) THEN MemCall(m, s, "mm.store", "mm.update.2")
            ELSE MemCall([m EXCEPT !.calls[s].metadata =
                            UpdatedMetadata(c.existing, c.metadata)],
                         s, "mm.store", "mm.update.2")
       [] c.pc = "mm.update.2" -> MemReturn(m, s, c.item)
       [] c.pc = "mm.delete" ->
            IF m.client = "map"
            THEN MemReturn([checked EXCEPT !.map = MapRemove(@, fullKey)], s, Undefined)
            ELSE MemAwait(checked, s, "client.del")
       [] c.pc = "mm.list" ->
            IF m.client = "map"
            THEN MemReturn([checked EXCEPT !.calls[s].list = MapList(m.map, ListLimit)],
                           s, MapList(m.map, ListLimit))
            ELSE MemAwait(checked, s, "client.keys")

\* what the call awaits: a library (fs, HNSWLib, the embeddings) or the
\* remote store
LibraryLabels ==
  {"mkdir", "fromTexts.init", "embedQuery", "addDocuments", "vectorStore.save", "fromTexts"}
RemoteLabels == {"client.set", "client.get", "client.del", "client.mGet", "FT.CREATE"}

\* `this.vectorStore = await HNSWLib.fromTexts(...)` of delete assigning a
\* store that lacks the last document
SwapPartial(m, s) ==
  LET docs == m.calls[s].docs
  IN [NewIndex(m, SubSeq(docs, 1, Len(docs) - 1)) EXCEPT !.calls[s].swapped = TRUE]

\* `this.vectorStore = await HNSWLib.fromTexts(texts, metadatas, embeddings)`
\* of delete: the new store, whole, takes the place of the old one
Swap(m, s) ==
  [NewIndex(m, m.calls[s].docs) EXCEPT !.calls[s].swapped = TRUE]

\* What the call awaited is there: the rest of the statement and the code
\* after it, until the next await, return or throw.
MemResolve(m, s) ==
  LET c == m.calls[s]
      fullKey == GetKey(VectorNamespace, c.key)
  IN CASE c.pc = "mkdir" -> MemAwait(m, s, "load")
       [] c.pc = "fromTexts.init" ->
            MemReturn([NewIndex(m, <<InitDocument>>) EXCEPT !.initialized = TRUE],
                      s, Undefined)
       [] c.pc = "embedQuery" ->
            MemRun(MemAt([m EXCEPT !.calls[s].item.embedding = TRUE], s, "mm.store.1"), s)
       [] c.pc = "client.set" ->
            LET m1 == [m EXCEPT !.redis = MapPut(@, fullKey, ItemText(c.item))]
            IN IF c.item.embedding THEN MemAwait(m1, s, "FT.CREATE")
               ELSE MemReturn(m1, s, c.item)
       [] c.pc = "FT.CREATE" -> MemReturn(m, s, c.item)
       [] c.pc = "client.get" ->
            MemReturn([m EXCEPT !.calls[s].existing = Parsed(m.redis, fullKey)],
                      s, Parsed(m.redis, fullKey))
       [] c.pc = "client.del" ->
            MemReturn([m EXCEPT !.redis = MapRemove(@, fullKey)], s, Undefined)
       [] c.pc = "client.mGet" ->
            MemReturn([m EXCEPT !.calls[s].list = RemoteList(m.redis, c.keys)],
                      s, RemoteList(m.redis, c.keys))
       [] c.pc = "addDocuments" ->
            MemCall([m EXCEPT !.indexes[c.target] = @ \o c.docs], s, "save", "store.3")
       [] c.pc = "vectorStore.save" ->
            MemReturn([m EXCEPT !.disk = [saved |-> TRUE, docs |-> m.indexes[c.target]]],
                      s, Undefined)
       [] c.pc = "fromTexts" -> MemCall(Swap(m, s), s, "save", "delete.3")

\* the version stored under key, 0 if nothing is
StoredVersion(m, key) ==
  LET fullKey == GetKey(VectorNamespace, key)
  IN IF MapHas(Backend(m), fullKey) THEN MapGet(Backend(m), fullKey).version ELSE 0

\* metadata.version of what is stored under key, 0 if there is none
StoredMetadataVersion(m, key) ==
  LET fullKey == GetKey(VectorNamespace, key)
  IN IF MapHas(Backend(m), fullKey) THEN MapGet(Backend(m), fullKey).metadata.version ELSE 0

MemUnchanged ==
  UNCHANGED <<workflows, agents, client, objs, runs, timers, now, fan, exec, reg, conn, fac, chain, stores, dog, sched>>

\* a caller calls op(key, data, metadata) or similaritySearch(query, k) on
\* the VectorMemory (or update on its memoryManager) while slot s is free
MemoryCall(s, op, key, data, metadata, k) ==
  /\ mem.calls[s].pc \in {"idle", "done"}
  /\ mem' = MemRun([mem EXCEPT !.calls[s] =
                      [IdleMemoryCall EXCEPT
                         !.op = op, !.pc = op, !.key = key, !.data = data,
                         !.metadata = metadata, !.k = k,
                         !.prior = StoredVersion(mem, key),
                         !.pre = IF mem.vectorStore = 0 \/ op # "delete"
                                 THEN [known |-> FALSE, docs |-> <<>>]
                                 ELSE [known |-> TRUE,
                                       docs |-> mem.indexes[mem.vectorStore]]]], s)
  /\ MemUnchanged

Store(s, key, data, metadata) == MemoryCall(s, "store", key, data, metadata, 0)
SimilaritySearch(s, k) == MemoryCall(s, "similaritySearch", "", Undefined, NoMetadata, k)
MemoryRetrieve(s, key) == MemoryCall(s, "retrieve", key, Undefined, NoMetadata, 0)
Update(s, key, data, metadata) == MemoryCall(s, "update", key, data, metadata, 0)
Delete(s, key) == MemoryCall(s, "delete", key, Undefined, NoMetadata, 0)
ManagerUpdate(s, key, data, metadata) == MemoryCall(s, "mm.update", key, data, metadata, 0)

\* a call that awaits a function which has returned takes its next turn
MemResume(s) ==
  /\ mem.calls[s].pc \notin {"idle", "done"} /\ ~mem.calls[s].wait
  /\ mem' = MemRun(mem, s)
  /\ MemUnchanged

\* a library call settles
LibraryResolve(s) ==
  /\ mem.calls[s].wait /\ mem.calls[s].pc \in LibraryLabels
  /\ mem' = MemResolve(mem, s)
  /\ MemUnchanged
LibraryReject(s) ==
  /\ mem.calls[s].wait
  /\ mem.calls[s].pc \in LibraryLabels \cup {"vectorStore.similaritySearch"}
  /\ mem' = MemThrow(mem, s, LibraryError)
  /\ MemUnchanged
\* HNSWLib.load fails, no index file being in the directory before the first
\* save (which comes after initialize): initialize makes a new store
LoadReject(s) ==
  /\ mem.calls[s].wait /\ mem.calls[s].pc = "load"
  /\ mem' = MemAwait(mem, s, "fromTexts.init")
  /\ MemUnchanged

\* the sets of n elements of S
RECURSIVE KSubsets(_, _)
KSubsets(S, n) ==
  IF n = 0 THEN {{}}
  ELSE UNION {{T \cup {x} : T \in KSubsets(S \ {x}, n - 1)} : x \in S}
\* the elements of arr at the places in I, in the order of arr
Pick(arr, I) ==
  LET F[i \in 0..Len(arr)] ==
        IF i = 0 THEN <<>> ELSE IF i \in I THEN Append(F[i - 1], arr[i]) ELSE F[i - 1]
  IN F[Len(arr)]

\* vectorStore.similaritySearch(query, k) settles with the k documents of
\* the store it was called on that the library ranks first (all of them, if
\* there are fewer); the method maps them to {content, metadata, key}
SearchResolve(s, I) ==
  LET c == mem.calls[s]
      docs == mem.indexes[c.target]
  IN /\ c.wait /\ c.pc = "vectorStore.similaritySearch"
     /\ I \subseteq DOMAIN docs
     /\ Cardinality(I) = (IF Len(docs) < c.k THEN Len(docs) ELSE c.k)
     /\ mem' = MemReturn([mem EXCEPT !.calls[s].found = Pick(docs, I),
                                     !.calls[s].space = docs],
                         s, Pick(docs, I))
     /\ MemUnchanged

\* a command sent to the remote store settles; it can succeed only once the
\* client is connected
RemoteResolve(s) ==
  /\ mem.calls[s].wait /\ mem.calls[s].pc \in RemoteLabels
  /\ mem.link = "ready"
  /\ mem' = MemResolve(mem, s)
  /\ MemUnchanged
\* client.keys(pattern) settles: the keys in an order of the store's own, so
\* `dropped` are the ones slice(0, limit) leaves out
KeysResolve(s, dropped) ==
  LET c == mem.calls[s]
      keys == MapKeys(mem.redis)
      limitedKeys == SelectSeq(keys, LAMBDA key : key \notin dropped)
  IN /\ c.wait /\ c.pc = "client.keys"
     /\ mem.link = "ready"
     /\ dropped \subseteq {keys[i] : i \in DOMAIN keys}
     /\ Cardinality(dropped) = (IF Len(keys) > ListLimit THEN Len(keys) - ListLimit ELSE 0)
     /\ mem' = IF limitedKeys = <<>>
               THEN MemReturn([mem EXCEPT !.calls[s].list = <<>>], s, <<>>)
               ELSE MemAwait([mem EXCEPT !.calls[s].keys = limitedKeys], s, "client.mGet")
     /\ MemUnchanged
\* a command fails; the rejection of FT.CREATE is caught and logged
RemoteReject(s) ==
  /\ mem.calls[s].wait /\ mem.calls[s].pc \in RemoteLabels \cup {"client.keys"}
  /\ mem' = IF mem.calls[s].pc = "FT.CREATE"
            THEN MemReturn(mem, s, mem.calls[s].item)
            ELSE MemThrow(mem, s, RemoteError)
  /\ MemUnchanged

\* MemoryManager._initRedis: client.connect() resolves
ConnectResolve ==
  /\ mem.link = "connecting"
  /\ mem' = [mem EXCEPT !.link = "ready"]
  /\ MemUnchanged
\* client.connect() rejects: the catch block makes the Map the client
ConnectReject ==
  /\ mem.link = "connecting"
  /\ mem' = [mem EXCEPT !.link = "failed", !.client = "map"]
  /\ MemUnchanged

(***************************************************************************)
(* Platform connectors                                                     *)
(***************************************************************************)
\* the connector classes, the name each gives its API in messages
ConnectorClasses == {"x", "linkedin", "discord"}
ApiName(platform) ==
  CASE platform = "x" -> "X" [] platform = "linkedin" -> "LinkedIn"
    [] platform = "discord" -> "Discord"
\* the async methods a class defines, content and data operations all
OwnOperations(platform) ==
  CASE platform = "x" ->
         {"post", "reply", "retweet", "like", "getTweet", "search", "getTrends"}
    [] platform = "linkedin" ->
         {"post", "shareArticle", "comment", "like", "getPost", "sendConnectionRequest",
          "search"}
    [] platform = "discord" ->
         {"sendMessage", "reply", "createThread", "addReaction", "getMessages",
          "getServerInfo"}
\* the async generator methods a class defines
StreamOperations(platform) ==
  CASE platform = "x" -> {"streamMentions"}
    [] platform = "linkedin" -> {}
    [] platform = "discord" -> {"streamMessages"}
\* what a class has from BaseConnector only: post is not defined by
\* DiscordConnector
InheritedOperations(platform) == {"post"} \ OwnOperations(platform)

NotConnected(platform) == <<"Error", "Not connected to " \o ApiName(platform) \o " API">>
MethodNotImplemented == <<"Error", "Method not implemented">>
TokenRequired(platform) ==
  <<"Error", IF platform = "x" THEN "User authentication required for posting"
             ELSE "Access token required for posting">>
OperationFailed(platform, op) == <<"Error", "Failed: " \o op>>

\* new XConnector(config) and the like: BaseConnector sets connected to
\* false; accessToken is whether config has one. stream is the state of the
\* generator a stream method returned ("none" before any); since is history:
\* the last of construction, connect and disconnect.
NewConnector(accessToken) ==
  [connected |-> FALSE, accessToken |-> accessToken, stream |-> "none",
   since |-> "constructor"]
\* last is history: the last call of an operation, the flag when its body
\* began, its outcome, and whether it went past its checks (ran)
NoOperation ==
  [platform |-> "", op |-> "", connected |-> FALSE, outcome |-> Pending, ran |-> FALSE]
NewConnectors ==
  [of |-> [platform \in ConnectorClasses |-> NewConnector(FALSE)], last |-> NoOperation]

\* post with the access-token check moved before the connected check
OperationTokenFirst(c, platform, op, valid) ==
  IF op \in InheritedOperations(platform) THEN Rejected(MethodNotImplemented)
  ELSE IF op = "post" /\ ~c.accessToken THEN Rejected(TokenRequired(platform))
  ELSE IF ~c.connected THEN Rejected(NotConnected(platform))
  ELSE IF ~valid THEN Rejected(OperationFailed(platform, op))
  ELSE Fulfilled(Str(op))

\* The outcome of the async method op of connector c. valid: whether the
\* arguments are such that the body does not throw (post reads content.text).
Operation(c, platform, op, valid) ==
  IF op \in InheritedOperations(platform) THEN Rejected(MethodNotImplemented)
  ELSE IF ~c.connected THEN Rejected(NotConnected(platform))
  ELSE IF op = "post" /\ ~c.accessToken THEN Rejected(TokenRequired(platform))
  ELSE IF ~valid THEN Rejected(OperationFailed(platform, op))
  ELSE Fulfilled(Str(op))

ConnUnchanged ==
  UNCHANGED <<workflows, agents, client, objs, runs, timers, now, fan, exec, reg, mem, fac, chain, stores, dog, sched>>

\* new XConnector(config) / LinkedInConnector / DiscordConnector
Construct(platform, accessToken) ==
  /\ conn' = [conn EXCEPT !.of[platform] = NewConnector(accessToken)]
  /\ ConnUnchanged
\* connect(): the simulated connection succeeds
ConnectorConnect(platform) ==
  /\ conn' = [conn EXCEPT !.of[platform].connected = TRUE,
                          !.of[platform].since = "connect"]
  /\ ConnUnchanged
\* BaseConnector.disconnect()
ConnectorDisconnect(platform) ==
  /\ conn' = [conn EXCEPT !.of[platform].connected = FALSE,
                          !.of[platform].since = "disconnect"]
  /\ ConnUnchanged
\* a caller calls connector[op](...): an async method with no await in it
\* runs to its return or throw at the call
Operate(platform, op, valid) ==
  LET c == conn.of[platform]
      outcome == Operation(c, platform, op, valid)
  IN /\ op \in OwnOperations(platform) \cup InheritedOperations(platform)
     /\ conn' = [conn EXCEPT !.last =
                   [platform |-> platform, op |-> op, connected |-> c.connected,
                    outcome |-> outcome,
                    ran |-> outcome.kind = "returned"
                            \/ outcome.error = OperationFailed(platform, op)]]
     /\ ConnUnchanged
\* a caller calls streamMentions() / streamMessages(): it is given a
\* generator; nothing of the body has run
StreamCall(platform, op) ==
  /\ op \in StreamOperations(platform)
  /\ conn' = [conn EXCEPT !.of[platform].stream = "suspendedStart"]
  /\ ConnUnchanged
\* next() of the generator: the first one runs the body from its start, the
\* connected check first, to the yield; the second one ends the stream
StreamNext(platform, op) ==
  LET c == conn.of[platform]
  IN /\ op \in StreamOperations(platform)
     /\ c.stream \in {"suspendedStart", "suspendedYield"}
     /\ conn' =
          IF c.stream = "suspendedYield"
          THEN [conn EXCEPT !.of[platform].stream = "closed"]
          ELSE [conn EXCEPT
                  !.of[platform].stream = IF c.connected THEN "suspendedYield" ELSE "closed",
                  !.last =
                    [platform |-> platform, op |-> op, connected |-> c.connected,
                     outcome |-> IF c.connected THEN Fulfilled(Str(op))
                                 ELSE Rejected(NotConnected(platform)),
                     ran |-> c.connected]]
     /\ ConnUnchanged


(***************************************************************************)
(* PlatformConnectorFactory.create and registerConnector                   *)
(***************************************************************************)
\* the platform arguments callers give, in several letter cases; "" is the
\* empty string
PlatformArguments == {"x", "X", "twitter", "LinkedIn", "discord", "mastodon", "Mastodon", ""}
\* String.prototype.toLowerCase, on these
ToLowerCase(platform) ==
  CASE platform = "X" -> "x" [] platform = "LinkedIn" -> "linkedin"
    [] platform = "Mastodon" -> "mastodon" [] OTHER -> platform
LowerCased == {ToLowerCase(platform) : platform \in PlatformArguments}
\* the ConnectorClass arguments: two classes of a deployment, and a value
\* that is no function
NotAFunction == "undefined"
ConnectorClassArguments == {"MastodonConnector", "MyXConnector", NotAFunction}

\* PlatformConnectorFactory.connectorRegistry = {}: "" stands for a property
\* the object does not have. created is history: the last create, the class
\* of the connector it returned, and what the registry held for the
\* platform then; threw is what the last registerConnector threw.
NewFactory ==
  [connectorRegistry |-> [platform \in LowerCased |-> ""],
   created |-> [platform |-> "", class |-> "", registered |-> ""],
   threw |-> NoError]

PlatformMustBeString == <<"Error", "Platform must be a valid string">>
ClassMustBeConstructor == <<"Error", "ConnectorClass must be a valid constructor">>

\* PlatformConnectorFactory.create: the class of the connector it returns
ConnectorClassOf(f, platform) ==
  CASE ToLowerCase(platform) \in {"x", "twitter"} -> "XConnector"
    [] ToLowerCase(platform) = "linkedin" -> "LinkedInConnector"
    [] ToLowerCase(platform) = "discord" -> "DiscordConnector"
    [] OTHER -> "GenericConnector"

FacUnchanged ==
  UNCHANGED <<workflows, agents, client, objs, runs, timers, now, fan, exec, reg, mem, conn, chain, stores, dog, sched>>

\* PlatformConnectorFactory.create(platform, config)
Create(platform) ==
  /\ fac' = [fac EXCEPT !.created =
               [platform |-> platform, class |-> ConnectorClassOf(fac, platform),
                registered |-> fac.connectorRegistry[ToLowerCase(platform)]]]
  /\ FacUnchanged
\* PlatformConnectorFactory.registerConnector(platform, ConnectorClass)
RegisterConnector(platform, ConnectorClass) ==
  /\ fac' =
       IF platform = "" THEN [fac EXCEPT !.threw = PlatformMustBeString]
       ELSE IF ConnectorClass = NotAFunction
       THEN [fac EXCEPT !.threw = ClassMustBeConstructor]
       ELSE [fac EXCEPT !.connectorRegistry[ToLowerCase(platform)] = ConnectorClass,
                        !.threw = NoError]
  /\ FacUnchanged

(***************************************************************************)
(* Orchestrator.chainAgents                                                *)
(***************************************************************************)
\* the agentIds arguments of chainAgents
MaxChain == 2
\* how many chainAgents calls callers make
MaxCalls == 3
ChainLists == UNION {[1..k -> AgentIds] : k \in 0..MaxChain}

\* `chain_${Date.now()}`
ChainName(time) == "chain_" \o ToString(time)
\* agentIds.map((agentId, index) => ({id: `step_${index}`, agentId,
\* action: 'process', memorize: true}))
ChainSteps(agentIds) ==
  [k \in DOMAIN agentIds |->
     Step("step_" \o ToString(k - 1), agentIds[k], "process", NoCondition, TRUE)]

\* After construction: no chainAgents call yet. threw is what the last call
\* threw, name the name it made, calls how many calls there were (history).
NewChains == [threw |-> NoError, name |-> "", calls |-> 0]

ChainUnchanged ==
  UNCHANGED <<agents, client, objs, runs, timers, now, fan, exec, reg, mem, conn, fac,
              stores, dog, sched>>

\* Orchestrator.chainAgents(agentIds): registerWorkflow ->
\* WorkflowRegistry.register throws when the name is registered
ChainAgents(agentIds) ==
  LET workflowName == ChainName(now)
  IN /\ IF workflowName \in DOMAIN workflows
        THEN /\ chain' = [threw |-> AlreadyRegistered(workflowName),
                          name |-> workflowName, calls |-> chain.calls + 1]
             /\ UNCHANGED workflows
        ELSE /\ chain' = [threw |-> NoError, name |-> workflowName,
                          calls |-> chain.calls + 1]
             /\ workflows' = Register(workflows, workflowName, ChainSteps(agentIds))
     /\ ChainUnchanged

\* WorkflowRegistry.compose on the registry of the orchestrator: the steps
\* of the members, one list after the other
RECURSIVE CompositeSteps(_, _)
CompositeSteps(wfs, workflowNames) ==
  IF workflowNames = <<>> THEN <<>>
  ELSE wfs[Head(workflowNames)] \o CompositeSteps(wfs, Tail(workflowNames))

\* orchestrator.workflows.compose(newName, workflowNames): it throws, and
\* registers nothing, when a member is not registered
Compose(newName, workflowNames) ==
  /\ workflows' =
       IF \A k \in DOMAIN workflowNames : workflowNames[k] \in DOMAIN workflows
       THEN Register(workflows, newName, CompositeSteps(workflows, workflowNames))
       ELSE workflows
  /\ UNCHANGED <<agents, client, objs, runs, timers, now, fan, exec, reg, mem, conn, fac, chain, stores, dog, sched>>

(***************************************************************************)
(* MemoryManagers of several namespaces over one backing store             *)
(***************************************************************************)
\* BaseAgent: the namespaces of agent.memory and agent.vectorMemory
AgentNamespace(id) == "agent:" \o id
AgentVectorNamespace(id) == "agent:" \o id \o ":vector"
\* the managers that share the backing store, by their namespaces
ManagerNamespaces == {AgentNamespace("1"), AgentVectorNamespace("1"), AgentNamespace("2")}
\* the keys and prefixes callers use
ManagerKeys == {"k1", "vector:k1"}
ManagerPrefixes == {"", "k"}

\* String.prototype.startsWith
StartsWith(str, prefix) ==
  Len(prefix) <= Len(str) /\ SubSeq(str, 1, Len(prefix)) = prefix

\* entries: the backing store, full key -> record; by (the namespace of the
\* manager the record was stored through) is history. last: the last call,
\* the records it returned and the records it removed
NoManagerCall == [op |-> "none", namespace |-> "", returned |-> <<>>, removed |-> <<>>]
NewStores == [entries |-> <<>>, last |-> NoManagerCall]

\* MemoryManager.list: the records under the keys that start with the full
\* prefix, limit of them at most
ManagerList(entries, namespace, prefix, limit) ==
  LET fullPrefix == GetKey(namespace, prefix)
      found == SelectSeq(entries, LAMBDA e : StartsWith(e.key, fullPrefix))
  IN [i \in 1..(IF Len(found) < limit THEN Len(found) ELSE limit) |-> found[i].value]

StoresUnchanged ==
  UNCHANGED <<workflows, agents, client, objs, runs, timers, now, fan, exec, reg, mem, conn, fac, chain, dog, sched>>

\* manager.store(key, ...) of the manager of the namespace
SharedStore(namespace, key) ==
  /\ stores' = [entries |-> MapPut(stores.entries, GetKey(namespace, key),
                                   [by |-> namespace, key |-> key]),
                last |-> [NoManagerCall EXCEPT !.op = "store", !.namespace = namespace]]
  /\ StoresUnchanged

\* manager.retrieve(key)
SharedRetrieve(namespace, key) ==
  LET fullKey == GetKey(namespace, key)
  IN /\ stores' = [stores EXCEPT !.last =
                     [NoManagerCall EXCEPT
                        !.op = "retrieve", !.namespace = namespace,
                        !.returned = IF MapHas(stores.entries, fullKey)
                                     THEN <<MapGet(stores.entries, fullKey)>>
                                     ELSE <<>>]]
     /\ StoresUnchanged

\* manager.list(prefix)
SharedList(namespace, prefix) ==
  /\ stores' = [stores EXCEPT !.last =
                  [NoManagerCall EXCEPT
                     !.op = "list", !.namespace = namespace,
                     !.returned = ManagerList(stores.entries, namespace, prefix,
                                              ListLimit)]]
  /\ StoresUnchanged

\* manager.delete(key)
SharedDelete(namespace, key) ==
  LET fullKey == GetKey(namespace, key)
  IN /\ stores' = [entries |-> MapRemove(stores.entries, fullKey),
                   last |-> [NoManagerCall EXCEPT
                               !.op = "delete", !.namespace = namespace,
                               !.removed = IF MapHas(stores.entries, fullKey)
                                           THEN <<MapGet(stores.entries, fullKey)>>
                                           ELSE <<>>]]
     /\ StoresUnchanged

(***************************************************************************)
(* CommunityWatchdog and its MentionTracker                                *)
(***************************************************************************)
\* the ids of the mentions the platforms deliver; "" is a mention without id
MentionIds == {"m1", "m2"}
NoMentionId == ""
\* the mention streams (one per platform), each handling one mention at a time
Streams == {"x", "discord"}
\* how many mentions the platforms deliver, duplicates included
MaxDeliveries == 3

IdleHandler == [pc |-> "idle", id |-> NoMentionId]
IdleCycle == [pc |-> "idle", newMentions |-> <<>>, k |-> 0]

\* the tracker (seenMentionIds, mentions, newMentions), the _handleMention
\* call of each stream, the runOnce cycle, stats.mentions; processed (the ids
\* _processMention was called with, in order) and delivered are history
NewWatchdog ==
  [seenMentionIds |-> {}, mentions |-> <<>>, newMentions |-> <<>>,
   handlers |-> [st \in Streams |-> IdleHandler], cycle |-> IdleCycle,
   mentionsStat |-> 0, processed |-> <<>>, delivered |-> 0]

\* MentionTracker.trackMention of a mention that has an id, within a day of
\* the last cleanup
TrackMention(d, id) ==
  IF id \in d.seenMentionIds THEN d
  ELSE [d EXCEPT !.mentions = Append(@, id),
                 !.seenMentionIds = @ \cup {id},
                 !.newMentions = Append(@, id)]

\* _processMention(mention) is called
ProcessMention(d, id) == [d EXCEPT !.processed = Append(@, id)]

DogUnchanged ==
  UNCHANGED <<workflows, agents, client, objs, runs, timers, now, fan, exec, reg, mem, conn, fac, chain, stores, sched>>

\* a stream delivers a mention: _handleMention up to `await trackMention`;
\* for a mention without id trackMention throws and the catch block logs it
HandleMention(st, id) ==
  /\ dog.handlers[st].pc = "idle"
  /\ dog' =
       IF id = NoMentionId THEN [dog EXCEPT !.delivered = @ + 1]
       ELSE [TrackMention(dog, id) EXCEPT
               !.delivered = @ + 1,
               !.handlers[st] = [pc |-> "trackMention", id |-> id]]
  /\ DogUnchanged

\* _handleMention after `await trackMention`, whose result it does not read:
\* it calls _processMention
HandleTracked(st) ==
  /\ dog.handlers[st].pc = "trackMention"
  /\ dog' = [ProcessMention(dog, dog.handlers[st].id) EXCEPT
               !.handlers[st].pc = "processMention"]
  /\ DogUnchanged

\* _processMention returns: stats.mentions++
HandleProcessed(st) ==
  /\ dog.handlers[st].pc = "processMention"
  /\ dog' = [dog EXCEPT !.handlers[st] = IdleHandler, !.mentionsStat = @ + 1]
  /\ DogUnchanged

\* _processMention throws (the analyzer or the memory failed): the catch
\* block of _handleMention logs it
HandleFailed(st) ==
  /\ dog.handlers[st].pc = "processMention"
  /\ dog' = [dog EXCEPT !.handlers[st] = IdleHandler]
  /\ DogUnchanged

\* runOnce -> _runImplementation up to `await getNewMentions()`, which takes
\* the new mentions and empties the list
RunOnce ==
  /\ dog.cycle.pc = "idle"
  /\ dog' = [dog EXCEPT !.cycle = [pc |-> "getNewMentions",
                                   newMentions |-> dog.newMentions, k |-> 0],
                        !.newMentions = <<>>]
  /\ DogUnchanged

\* the loop of _runImplementation at mention k: _processMention is called,
\* or, past the list, the cycle returns
CycleLoop(d, k) ==
  IF k > Len(d.cycle.newMentions) THEN [d EXCEPT !.cycle = IdleCycle]
  ELSE [ProcessMention(d, d.cycle.newMentions[k]) EXCEPT
          !.cycle.pc = "processMention", !.cycle.k = k]

\* _runImplementation after `await getNewMentions()`
CycleDrained ==
  /\ dog.cycle.pc = "getNewMentions"
  /\ dog' = CycleLoop(dog, 1)
  /\ DogUnchanged

\* _processMention returns to the cycle
CycleProcessed ==
  /\ dog.cycle.pc = "processMention"
  /\ dog' = CycleLoop(dog, dog.cycle.k + 1)
  /\ DogUnchanged

\* _processMention throws in the cycle: runOnce ends
CycleFailed ==
  /\ dog.cycle.pc = "processMention"
  /\ dog' = [dog EXCEPT !.cycle = IdleCycle]
  /\ DogUnchanged

(***************************************************************************)
(* ContentScheduler                                                        *)
(***************************************************************************)
\* Times are counted in slots: MinuteSlots slots to the hour (the minute of a
\* posting time, Math.floor(Math.random() * 60), is one of them), 24 hours to
\* the day; the clock runs through the days 0..MaxDay.
MinuteSlots == 2
HoursPerDay == 24
MaxDay == 1
SlotsPerDay == HoursPerDay * MinuteSlots
\* the frames the call stack holds before the engine throws RangeError
MaxStack == 2

\* new Date(t) with setHours(hour, minute, 0, 0)
SetHours(t, hour, minute) == (t \div SlotsPerDay) * SlotsPerDay + hour * MinuteSlots + minute
\* tomorrow: setDate(getDate() + 1), setHours(0, 0, 0, 0)
Tomorrow(t) == (t \div SlotsPerDay + 1) * SlotsPerDay

\* options.activeHours and options.platformTimes as callers give them; the
\* platforms of platformTimes in the order of Object.keys
ActiveHoursOptions == {<<8, 22>>, <<9, 17>>}
PlatformTimesOptions ==
  {<<[platform |-> "x", hours |-> <<8, 20>>],
     [platform |-> "linkedin", hours |-> <<12>>]>>,
   <<[platform |-> "x", hours |-> <<>>]>>}

\* the (platform, hour) pairs in the order the loops of _generateSchedule
\* visit them
RECURSIVE OptimalTimes(_)
OptimalTimes(platformTimes) ==
  IF platformTimes = <<>> THEN <<>>
  ELSE [k \in DOMAIN Head(platformTimes).hours |->
          [platform |-> Head(platformTimes).platform,
           hour |-> Head(platformTimes).hours[k]]]
       \o OptimalTimes(Tail(platformTimes))

\* Array.prototype.sort((a, b) => a.time - b.time), which is stable
RECURSIVE SortByTime(_)
SortByTime(items) ==
  IF items = <<>> THEN <<>>
  ELSE LET last == items[Len(items)]
           sorted == SortByTime(SubSeq(items, 1, Len(items) - 1))
       IN SelectSeq(sorted, LAMBDA item : item.time <= last.time)
          \o <<last>>
          \o SelectSeq(sorted, LAMBDA item : item.time > last.time)

\* ContentScheduler._generateSchedule; minutes[k] is the random minute of the
\* k-th posting time
GenerateSchedule(sc, startTime, endTime, minutes) ==
  LET optimal == OptimalTimes(sc.platformTimes)
      F[k \in 0..Len(optimal)] ==
        IF k = 0 THEN <<>>
        ELSE LET hour == optimal[k].hour
                 postTime == SetHours(startTime, hour, minutes[k])
             IN IF hour < sc.activeHours[1] \/ hour > sc.activeHours[2] THEN F[k - 1]
                ELSE IF postTime < startTime \/ postTime > endTime THEN F[k - 1]
                ELSE Append(F[k - 1], [time |-> postTime, platform |-> optimal[k].platform])
  IN SortByTime(F[Len(optimal)])
\* the random minutes one _generateSchedule call may draw
MinuteChoices(sc) ==
  [1..Len(OptimalTimes(sc.platformTimes)) -> 0..(MinuteSlots - 1)]

NoItem == [time |-> -1, platform |-> ""]
\* the loop of _getNextTimeFromSchedule: the first item later than now
HasNextTime(schedule, t) == \E k \in DOMAIN schedule : schedule[k].time > t
NextTime(schedule, t) ==
  schedule[CHOOSE k \in DOMAIN schedule :
             /\ schedule[k].time > t
             /\ \A m \in 1..(k - 1) : schedule[m].time <= t]

\* pc: "none" before construction; "ready"; "initialize" while
\* _getNextTimeFromSchedule, having found no item, is about to call
\* _initializeSchedule again; "threw" once the stack was exhausted. depth
\* counts the nested _getNextTimeFromSchedule calls; asked and returned (the
\* clock at the last call and what the call returned) are history.
NewScheduler ==
  [pc |-> "none", clock |-> 0, activeHours |-> <<>>, platformTimes |-> <<>>,
   schedule |-> <<>>, nextScheduledTime |-> NoItem, depth |-> 0,
   op |-> "none", asked |-> 0, returned |-> NoItem]

\* _getNextTimeFromSchedule(now): the item, or the call of
\* _initializeSchedule when there is none
GetNextTimeFromSchedule(sc) ==
  IF HasNextTime(sc.schedule, sc.clock)
  THEN [sc EXCEPT !.pc = "ready", !.depth = 0,
                  !.nextScheduledTime = NextTime(sc.schedule, sc.clock),
                  !.returned = NextTime(sc.schedule, sc.clock)]
  ELSE [sc EXCEPT !.pc = "initialize", !.depth = @ + 1]

\* _initializeSchedule: the schedule from now to midnight, then
\* _getNextTimeFromSchedule(now)
InitializeSchedule(sc, minutes) ==
  GetNextTimeFromSchedule(
    [sc EXCEPT !.schedule = GenerateSchedule(sc, sc.clock, Tomorrow(sc.clock), minutes)])

SchedUnchanged ==
  UNCHANGED <<workflows, agents, client, objs, runs, timers, now, fan, exec, reg, mem, conn, fac, chain, stores, dog>>

\* new ContentScheduler({activeHours, platformTimes})
ConstructScheduler(activeHours, platformTimes) ==
  /\ sched.pc = "none"
  /\ LET sc == [sched EXCEPT !.activeHours = activeHours, !.platformTimes = platformTimes,
                             !.op = "constructor", !.asked = sched.clock]
     IN \E minutes \in MinuteChoices(sc) : sched' = InitializeSchedule(sc, minutes)
  /\ SchedUnchanged

\* scheduler.scheduleNextContent()
ScheduleNextContent ==
  /\ sched.pc = "ready"
  /\ sched' = GetNextTimeFromSchedule(
                [sched EXCEPT !.op = "scheduleNextContent", !.asked = sched.clock,
                              !.returned = NoItem])
  /\ SchedUnchanged

\* the nested _initializeSchedule call, made at the same reading of the
\* clock; with the stack full the call throws RangeError
Reinitialize ==
  /\ sched.pc = "initialize"
  /\ IF sched.depth >= MaxStack
     THEN sched' = [sched EXCEPT !.pc = "threw"]
     ELSE \E minutes \in MinuteChoices(sched) : sched' = InitializeSchedule(sched, minutes)
  /\ SchedUnchanged

\* time passes between the calls
ClockTick ==
  /\ sched.pc \in {"none", "ready"}
  /\ sched.clock < (MaxDay + 1) * SlotsPerDay - 1
  /\ sched' = [sched EXCEPT !.clock = @ + 1]
  /\ SchedUnchanged

(***************************************************************************)
(* The orchestrator: one registry, one agent list, one memory store        *)
(***************************************************************************)

\* the results object of the caller's seed context, before any call
CallerResults == "s2" :> [value |-> Str("old"), by |-> <<"caller", 0>>]

Init ==
  /\ workflows = [n \in {"greet", "pipe"} |-> WorkflowDefs[n]]
  /\ agents = {"a1"}
  /\ client = <<>>
  /\ objs = [o \in Refs |->
               IF o = "caller" THEN CallerResults ELSE <<>>]
  /\ runs = [r \in Runs |-> IdleRun]
  /\ timers = [tid \in TimerIds |-> NoTimer]
  /\ now = 0
  /\ fan = IdleFan
  /\ exec = NewExecutor
  /\ reg = NewRegistry
  /\ mem = NewMemory
  /\ conn = NewConnectors
  /\ fac = NewFactory
  /\ chain = NewChains
  /\ stores = NewStores
  /\ dog = NewWatchdog
  /\ sched = NewScheduler

\* the steps of the runs in flight, whoever started them
RunStep ==
  \/ \E r \in Runs : RateCheckPass(r)
  \/ \E r \in Runs : RateCheckReject(r)
  \/ \E r \in Runs, result \in Results : ActionReturn(r, result)
  \/ \E r \in Runs, e \in ActionErrors : ActionThrow(r, e)
  \/ \E r \in Runs : \E call \in runs[r].pending : StoreResolve(r, call)
  \/ \E r \in Runs : \E call \in runs[r].pending : StoreReject(r, call)

\* callers run workflows directly while agents and workflows get registered
Next ==
  \/ \E n \in WorkflowNames, seed \in Seeds : ExecuteWorkflow(n, seed)
  \/ RunStep
  \/ \E a \in AgentIds : RegisterAgent(a)
  \/ \E n \in WorkflowNames : RegisterWorkflow(n)

Spec == Init /\ [][Next]_vars

\* the names callers schedule: one registered, one not
ScheduledNames == {"greet", "dup"}

\* callers schedule workflows, cancel them, and time passes
NextSchedule ==
  \/ \E n \in ScheduledNames, seed \in Seeds, t \in ScheduledTimes : ScheduleNow(n, seed, t)
  \/ \E tid \in TimerIds, n \in ScheduledNames, seed \in Seeds, t \in ScheduledTimes :
       ScheduleLater(tid, n, seed, t)
  \/ \E tid \in TimerIds : TimerFire(tid)
  \/ \E tid \in TimerIds : Cancel(tid)
  \/ Tick
  \/ RunStep

SpecSchedule == Init /\ [][NextSchedule]_vars

\* a caller schedules a workflow for later; before the timer fires, and
\* after, workflows are registered, updated and removed, agents registered
NextDeferred ==
  \/ \E tid \in TimerIds, n \in ScheduledNames, t \in ScheduledTimes :
       ScheduleLater(tid, n, "empty", t)
  \/ \E tid \in TimerIds : TimerFire(tid)
  \/ Tick
  \/ RunStep
  \/ \E n \in ScheduledNames : RegisterWorkflow(n)
  \/ \E n \in ScheduledNames : UpdateWorkflow(n, WorkflowDefs["pipe"])
  \/ \E n \in ScheduledNames : RemoveWorkflow(n)
  \/ \E a \in AgentIds : RegisterAgent(a)

SpecDeferred == Init /\ [][NextDeferred]_vars

\* a caller fans an action out; a call that never settles takes no step
NextFanOut ==
  \/ \E action \in FanActions, targets \in TargetLists : ExecuteAction(action, targets)
  \/ \E action \in FanActions : ExecuteActionAll(action)
  \/ \E value \in ConnectorValues : CallResolve(value)
  \/ \E message \in ConnectorErrors : CallReject(message)

SpecFanOut == Init /\ [][NextFanOut]_vars

\* the steps of a call of execute in flight
ExecuteStep(c) ==
  \/ CheckResolve(c)
  \/ CheckReject(c)
  \/ \E result \in Results : AgentReturn(c, result)
  \/ \E e \in ActionErrors : AgentThrow(c, e)

\* callers call execute on an executor that observers are registered on
NextExecutor ==
  \/ \E event \in Events : On(event)
  \/ \E action \in ActionNames : Execute(action)
  \/ ExecuteStep("direct")
  \/ ClearExecutionHistory

SpecExecutor == Init /\ [][NextExecutor]_vars

\* callers call executeSequence on such an executor
NextSequence ==
  \/ \E event \in Events : On(event)
  \/ \E actions \in ActionLists : ExecuteSequence(actions)
  \/ ExecuteStep("sequence")
  \/ ClearExecutionHistory

SpecSequence == Init /\ [][NextSequence]_vars

\* callers call execute and read the history
NextHistory ==
  \/ \E action \in ActionNames : Execute(action)
  \/ ExecuteStep("direct")
  \/ \E limit \in Limits : GetExecutionHistory(limit)
  \/ ClearExecutionHistory

SpecHistory == Init /\ [][NextHistory]_vars

\* callers use one registry
NextRegistry ==
  \/ \E name \in RegistryNames, steps \in StepLists : RegisterCall(name, steps)
  \/ \E name \in RegistryNames, steps \in StepLists : UpdateCall(name, steps)
  \/ \E name \in RegistryNames : RemoveCall(name)
  \/ \E sourceName \in RegistryNames, targetName \in CopyNames :
       CloneCall(sourceName, targetName)
  \/ \E newName \in CopyNames, workflowNames \in MemberLists :
       ComposeCall(newName, workflowNames)

SpecRegistry == Init /\ [][NextRegistry]_vars

\* callers register and clone workflows and change the step lists that
\* get(name) gives them
NextClone ==
  \/ \E name \in RegistryNames, steps \in StepLists : RegisterCall(name, steps)
  \/ \E sourceName \in RegistryNames, targetName \in CopyNames :
       CloneCall(sourceName, targetName)
  \/ \E name \in RegistryNames, o \in StepObjects : PushStep(name, o)
  \/ \E name \in RegistryNames : PopStep(name)
  \/ \E name \in RegistryNames : ReverseSteps(name)
  \/ \E name \in RegistryNames, i \in 1..(MaxSteps + 1), action \in StepActions :
       SetStepAction(name, i, action)

SpecClone == Init /\ [][NextClone]_vars

\* the documents the library may rank first for the search slot s awaits
SearchChoices(s) ==
  LET c == mem.calls[s]
  IN IF c.wait /\ c.pc = "vectorStore.similaritySearch"
     THEN KSubsets(DOMAIN mem.indexes[c.target],
                   IF Len(mem.indexes[c.target]) < c.k THEN Len(mem.indexes[c.target])
                   ELSE c.k)
     ELSE {}

\* the keys client.keys may list beyond the first `limit`
KeysChoices(s) ==
  IF mem.calls[s].wait /\ mem.calls[s].pc = "client.keys"
  THEN KSubsets({mem.redis[i].key : i \in DOMAIN mem.redis},
                IF Len(mem.redis) > ListLimit THEN Len(mem.redis) - ListLimit ELSE 0)
  ELSE {}

\* the steps of a call on the VectorMemory in flight
MemoryStep(s) ==
  \/ MemResume(s)
  \/ LibraryResolve(s)
  \/ LibraryReject(s)
  \/ LoadReject(s)
  \/ \E I \in SearchChoices(s) : SearchResolve(s, I)
  \/ RemoteResolve(s)
  \/ \E dropped \in KeysChoices(s) : KeysResolve(s, dropped)
  \/ RemoteReject(s)

\* the documents of the vector store
IndexSize == IF mem.vectorStore = 0 THEN 0 ELSE Len(mem.indexes[mem.vectorStore])

\* one caller uses the VectorMemory, one call after the other
NextMemory ==
  \/ ConnectResolve
  \/ ConnectReject
  \/ \E key \in MemoryKeys, data \in MemoryData :
       IndexSize < MaxDocs /\ Store("c1", key, data, NoMetadata)
  \/ \E key \in MemoryKeys, data \in MemoryData :
       IndexSize < MaxDocs /\ Update("c1", key, data, NoMetadata)
  \/ \E key \in MemoryKeys, data \in MemoryData, metadata \in MetadataInputs :
       StoredMetadataVersion(mem, key) < MaxVersion
       /\ ManagerUpdate("c1", key, data, metadata)
  \/ \E key \in MemoryKeys : Delete("c1", key)
  \/ \E key \in MemoryKeys : MemoryRetrieve("c1", key)
  \/ SimilaritySearch("c1", DefaultK)
  \/ MemoryStep("c1")

SpecMemory == Init /\ [][NextMemory]_vars


\* the next key of the bulk: "k1", "k2", ... in order
BulkStore ==
  /\ mem.client = "map" /\ Len(mem.map) < MaxKeys
  /\ Len(mem.map) > 0 => MapHas(mem.map, GetKey(VectorNamespace, KeyName(1)))
  /\ Store("c1", KeyName(Len(mem.map) + 1), Str("hi"), NoMetadata)
\* a caller deletes the first key of the bulk
BulkDelete ==
  /\ MapHas(mem.map, GetKey(VectorNamespace, KeyName(1)))
  /\ Delete("c1", KeyName(1))

\* the remote store being unreachable, one caller stores key after key in
\* the fallback, deletes the first one, and searches
NextBulk ==
  \/ ConnectReject
  \/ BulkStore
  \/ BulkDelete
  \/ SimilaritySearch("c1", 1)
  \/ MemResume("c1")
  \/ LibraryResolve("c1")
  \/ LoadReject("c1")
  \/ \E I \in SearchChoices("c1") : SearchResolve("c1", I)

SpecBulk == Init /\ [][NextBulk]_vars

\* the keys one caller stores and deletes while another one searches
RebuildKeys == {KeyName(1), KeyName(2)}
Stored(key) == MapHas(Backend(mem), GetKey(VectorNamespace, key))

Settles(s) == mem.calls[s].pc \in {"idle", "done"}
\* the remote store being unreachable, one caller stores keys and deletes
\* stored ones, one call after the other; another one searches while a
\* delete is suspended
NextRebuild ==
  \/ ConnectReject
  \/ \E key \in RebuildKeys :
       /\ mem.client = "map" /\ ~Stored(key) /\ Settles("c2")
       /\ Store("c1", key, Str("hi"), NoMetadata)
  \/ \E key \in RebuildKeys : Stored(key) /\ Settles("c2") /\ Delete("c1", key)
  \/ /\ mem.calls["c1"].op = "delete" /\ ~Settles("c1")
     /\ SimilaritySearch("c2", DefaultK)
  \/ \E s \in MemorySlots : MemResume(s) \/ LibraryResolve(s) \/ LoadReject(s)
  \/ \E I \in SearchChoices("c2") : SearchResolve("c2", I)

SpecRebuild == Init /\ [][NextRebuild]_vars

\* the remote store being unreachable, one caller stores k1 and deletes it;
\* from the first delete on another one stores k2, at any point of the delete
NextInterleaved ==
  \/ ConnectReject
  \/ /\ mem.client = "map" /\ ~Stored(KeyName(1)) /\ mem.calls["c2"].pc = "idle"
     /\ Store("c1", KeyName(1), Str("hi"), NoMetadata)
  \/ Stored(KeyName(1)) /\ Delete("c1", KeyName(1))
  \/ /\ mem.calls["c1"].op = "delete" \/ (Stored(KeyName(1)) /\ Settles("c1"))
     /\ ~Stored(KeyName(2))
     /\ Store("c2", KeyName(2), Str("hi"), NoMetadata)
  \/ \E s \in MemorySlots : MemResume(s) \/ LibraryResolve(s) \/ LoadReject(s)

SpecInterleaved == Init /\ [][NextInterleaved]_vars

\* the names chainAgents can give, and the name callers give the composite
ChainNames == {ChainName(time) : time \in 0..MaxNow}
Composite == "both"
\* callers chain single agents, compose two chains and run the composite once
NextComposite ==
  \/ \E agentIds \in ChainLists :
       Len(agentIds) = 1 /\ chain.calls < MaxCalls /\ ChainAgents(agentIds)
  \/ Tick
  \/ \E first, second \in ChainNames : Compose(Composite, <<first, second>>)
  \/ (\A r \in Runs : runs[r].pc = "idle") /\ ExecuteWorkflow(Composite, "empty")
  \/ RunStep

SpecComposite == Init /\ [][NextComposite]_vars

\* platforms deliver mentions to the watchdog while it runs its cycles
NextWatchdog ==
  \/ \E st \in Streams, id \in MentionIds \cup {NoMentionId} :
       dog.delivered < MaxDeliveries /\ HandleMention(st, id)
  \/ \E st \in Streams : HandleTracked(st) \/ HandleProcessed(st) \/ HandleFailed(st)
  \/ RunOnce
  \/ CycleDrained
  \/ CycleProcessed
  \/ CycleFailed

SpecWatchdog == Init /\ [][NextWatchdog]_vars

\* a caller makes a scheduler at some time of some day and asks it for the
\* next content time again and again
NextScheduler ==
  \/ \E activeHours \in ActiveHoursOptions, platformTimes \in PlatformTimesOptions :
       ConstructScheduler(activeHours, platformTimes)
  \/ ScheduleNextContent
  \/ Reinitialize
  \/ ClockTick

SpecScheduler == Init /\ [][NextScheduler]_vars

\* the managers of an agent's memory, of its vector memory and of another
\* agent's memory, all on one backing store
NextShared ==
  \/ \E namespace \in ManagerNamespaces, key \in ManagerKeys : SharedStore(namespace, key)
  \/ \E namespace \in ManagerNamespaces, key \in ManagerKeys : SharedRetrieve(namespace, key)
  \/ \E namespace \in ManagerNamespaces, prefix \in ManagerPrefixes :
       SharedList(namespace, prefix)
  \/ \E namespace \in ManagerNamespaces, key \in ManagerKeys : SharedDelete(namespace, key)

SpecShared == Init /\ [][NextShared]_vars

\* callers construct connectors, connect and disconnect them, call their
\* operations and read their streams
NextConnectors ==
  \/ \E platform \in ConnectorClasses, accessToken \in BOOLEAN :
       Construct(platform, accessToken)
  \/ \E platform \in ConnectorClasses : ConnectorConnect(platform)
  \/ \E platform \in ConnectorClasses : ConnectorDisconnect(platform)
  \/ \E platform \in ConnectorClasses, valid \in BOOLEAN :
       \E op \in OwnOperations(platform) \cup InheritedOperations(platform) :
         Operate(platform, op, valid)
  \/ \E platform \in ConnectorClasses :
       \E op \in StreamOperations(platform) : StreamCall(platform, op)
  \/ \E platform \in ConnectorClasses :
       \E op \in StreamOperations(platform) : StreamNext(platform, op)

SpecConnectors == Init /\ [][NextConnectors]_vars

\* deployments register connector classes, callers create connectors
NextFactory ==
  \/ \E platform \in PlatformArguments, ConnectorClass \in ConnectorClassArguments :
       RegisterConnector(platform, ConnectorClass)
  \/ \E platform \in PlatformArguments \ {""} : Create(platform)

SpecFactory == Init /\ [][NextFactory]_vars

\* callers chain agents, again and again, while time passes
NextChain ==
  \/ \E agentIds \in ChainLists : chain.calls < MaxCalls /\ ChainAgents(agentIds)
  \/ Tick

SpecChain == Init /\ [][NextChain]_vars

(***************************************************************************)
(* Properties of executeWorkflow, checked under Spec                       *)
(***************************************************************************)
Seq1(k) == [m \in 1..k |-> m]
FullKey(run, i) == GetKey(Namespace, WorkflowKey(run.workflowName, run.steps[i].id))
ConditionFalse(run, i) ==
  /\ run.steps[i].condition.declared
  /\ ~ConditionHolds(run.steps[i].condition, run.res[i])
StoreFailedAt(run, i) ==
  run.status = "failed" /\ run.idx = i /\ run.error = <<"Error", "store failed">>
\* the run is past the loop body of step i
PastStep(run, i) == run.pc = "done" \/ run.idx > i

C1_InvokedInListOrder ==
  \A r \in Runs : runs[r].invoked = Seq1(Len(runs[r].invoked))
C1_InvokedAfterEarlierSteps ==
  \A r \in Runs :
    Len(runs'[r].invoked) > Len(runs[r].invoked) =>
      LET i == Len(runs[r].invoked) + 1
      IN /\ runs'[r].invoked = Append(runs[r].invoked, i)
         /\ runs[r].pending = {}
         /\ \A j \in 1..(i - 1) :
              /\ j \in DOMAIN runs[r].res
              /\ runs[r].steps[j].memorize => j \in runs[r].stored
\* C1: within one executeWorkflow run the step actions are invoked in the
\* workflow's list order, and the action of a step is invoked only once the
\* action of every earlier step has returned and the store of every earlier
\* memorize step has completed (no store is still in flight).
C1_StepsSequential ==
  []C1_InvokedInListOrder /\ [][C1_InvokedAfterEarlierSteps]_vars
\* a second step's action in flight after the first step was memorized
C1_Witness ==
  \E r \in Runs : runs[r].pc = "action" /\ runs[r].idx = 2 /\ 1 \in runs[r].stored

C3_ActionErrorFailsRun ==
  \A r \in Runs :
    runs[r].threw # NoError =>
      LET i == runs[r].idx
      IN /\ runs[r].pc = "done" /\ runs[r].status = "failed"
         /\ runs[r].error = runs[r].threw
         /\ runs[r].invoked = Seq1(i)
         /\ i \notin DOMAIN runs[r].res
         /\ i \notin runs[r].stored
         /\ \A call \in runs[r].pending : call.idx # i
         /\ \A k \in DOMAIN client : client[k].by # <<r, i>>
\* the action of a second step raised
C3_Witness ==
  \E r \in Runs : runs[r].threw # NoError /\ runs[r].idx = 2

\* C4 as claimed: every memorize step whose action returned a result is
\* persisted once the run is past it (unless the store itself failed), a
\* step whose own condition is false included.
C4_MemorizedWhateverCondition ==
  \A r \in Runs : \A i \in DOMAIN runs[r].res :
    (/\ runs[r].steps[i].memorize
     /\ PastStep(runs[r], i)
     /\ ~StoreFailedAt(runs[r], i)) =>
      /\ i \in runs[r].stored
      /\ FullKey(runs[r], i) \in DOMAIN client
\* C4: a memorize step whose action returned a result and whose condition
\* is absent or true is stored once the run is past it (unless the store
\* itself failed), under key workflow:<workflowName>:<step.id> with metadata
\* {workflow, step}, and the record stays, whatever happens to later steps,
\* until another store to that key replaces it; a memorize step whose own
\* condition is false is never stored.
C4_MemorizedUnlessConditionFalse ==
  \A r \in Runs : \A i \in DOMAIN runs[r].res :
    runs[r].steps[i].memorize =>
      /\ ConditionFalse(runs[r], i) =>
           /\ i \notin runs[r].stored
           /\ \A call \in runs[r].pending : call.idx # i
           /\ \A k \in DOMAIN client : client[k].by # <<r, i>>
      /\ (/\ ~ConditionFalse(runs[r], i)
          /\ PastStep(runs[r], i)
          /\ ~StoreFailedAt(runs[r], i)) => i \in runs[r].stored
      /\ i \in runs[r].stored =>
           LET key == WorkflowKey(runs[r].workflowName, runs[r].steps[i].id)
               item == Retrieve(client, key)
           IN /\ item # JsNull
              /\ client[GetKey(Namespace, key)].by = <<r, i>> =>
                   /\ item.key = key
                   /\ item.data = JsonParse(JsonStringify(runs[r].res[i]))
                   /\ item.metadata = [workflow |-> runs[r].workflowName,
                                       step |-> runs[r].steps[i].id]
\* a run aborted by the condition of a memorize step, an earlier step stored
C4_Witness ==
  \E r \in Runs :
    /\ runs[r].status = "aborted" /\ runs[r].steps[runs[r].idx].memorize
    /\ 1 \in runs[r].stored /\ runs[r].idx > 1

\* C5 as claimed: after a run that completes all steps, the record of every
\* memorize step (if this run's store wrote it last) has the step's result
\* as its data, and context.results holds the same result.
C5_RetrieveReturnsResult ==
  \A r \in Runs :
    runs[r].status = "completed" =>
      \A i \in 1..Len(runs[r].steps) :
        runs[r].steps[i].memorize =>
          LET key == WorkflowKey(runs[r].workflowName, runs[r].steps[i].id)
              item == Retrieve(client, key)
              entry == objs[runs[r].ref][runs[r].steps[i].id]
          IN /\ item # JsNull
             /\ client[GetKey(Namespace, key)].by = <<r, i>> => item.data = runs[r].res[i]
             /\ entry.by = <<r, i>> => entry.value = runs[r].res[i]
\* C5: after a run that completes all steps, every memorize step has a
\* record under its key; if this run's store wrote it last, its data is the
\* step's result after JSON.stringify and JSON.parse, which is the result
\* itself when that is a string; and the entry of context.results under the
\* step id, if this step wrote it last, is the result itself.
C5_RetrieveReturnsJsonOfResult ==
  \A r \in Runs :
    runs[r].status = "completed" =>
      \A i \in 1..Len(runs[r].steps) :
        runs[r].steps[i].memorize =>
          LET key == WorkflowKey(runs[r].workflowName, runs[r].steps[i].id)
              item == Retrieve(client, key)
              entry == objs[runs[r].ref][runs[r].steps[i].id]
          IN /\ item # JsNull
             /\ client[GetKey(Namespace, key)].by = <<r, i>> =>
                  /\ item.data = JsonParse(JsonStringify(runs[r].res[i]))
                  /\ runs[r].res[i].t = "string" => item.data = runs[r].res[i]
             /\ entry.by = <<r, i>> => entry.value = runs[r].res[i]
\* workflow greet completed, a1.speak having returned "hi"
C5_Witness ==
  \E r \in Runs :
    /\ runs[r].status = "completed" /\ runs[r].workflowName = "greet"
    /\ runs[r].res[1] = Str("hi")
    /\ Retrieve(client, "workflow:greet:s1").data = Str("hi")

C6_FailedRun ==
  \A r \in Runs :
    runs[r].error[1] = "Agent not found" =>
      LET i == runs[r].idx
      IN /\ runs[r].pc = "done" /\ runs[r].status = "failed"
         /\ runs[r].error = <<"Agent not found", runs[r].steps[i].agentId>>
         /\ runs[r].invoked = Seq1(i - 1)
         /\ runs[r].wrote = Seq1(i - 1)
         /\ \A j \in runs[r].stored :
              Retrieve(client, WorkflowKey(runs[r].workflowName, runs[r].steps[j].id)) # JsNull
C6_StepReached ==
  \A r \in Runs :
    (runs'[r].idx # runs[r].idx /\ runs'[r].idx \in 1..Len(runs'[r].steps)) =>
      LET missing == runs'[r].steps[runs'[r].idx].agentId \notin agents
      IN /\ runs'[r].idx = runs[r].idx + 1
         /\ missing <=> runs'[r].error[1] = "Agent not found"
\* C6: the steps are reached one after the other, and a run fails with
\* "Agent not found" at step i exactly when it reaches step i while no
\* agent with the step's agentId is registered; the run
\* then returns no context, neither step i nor a later step acted, and
\* every step the run stored before stays retrievable from the memory.
C6_AgentNotFoundFailsRun ==
  []C6_FailedRun /\ [][C6_StepReached]_vars
\* a run that failed at its second step for want of the agent, the first
\* step memorized
C6_Witness ==
  \E r \in Runs :
    /\ runs[r].error[1] = "Agent not found" /\ runs[r].idx = 2
    /\ 1 \in runs[r].stored

(***************************************************************************)
(* Properties of scheduleWorkflow, checked under SpecSchedule              *)
(***************************************************************************)
C7_CancelledBeforeFire ==
  \A tid \in TimerIds :
    timers[tid].cancelledAt = "beforeFire" =>
      /\ timers[tid].state = "cancelled"
      /\ \A r \in Runs : runs[r].timer # tid
C7_CancelAfterFire ==
  \A tid \in TimerIds :
    (timers[tid].cancelledAt = "never" /\ timers'[tid].cancelledAt = "afterFire") =>
      /\ timers[tid].state = "fired"
      /\ timers' = [timers EXCEPT ![tid].cancelledAt = "afterFire"]
      /\ UNCHANGED <<workflows, agents, client, objs, runs, now>>
\* C7: once cancel() was called on a handle whose timer had not run, the
\* timer never runs: no executeWorkflow run of it exists, so no step action
\* of it is invoked; a cancel() called once the timer has run changes
\* nothing of the state but the record of the call, so the run goes on as
\* it would have.
C7_CancelOnlyBeforeFire ==
  []C7_CancelledBeforeFire /\ [][C7_CancelAfterFire]_vars
\* a timer cancelled in time, now overdue, that did not run
C7_Witness ==
  \E tid \in TimerIds :
    /\ timers[tid].cancelledAt = "beforeFire"
    /\ now >= timers[tid].scheduledTime
    /\ now > timers[tid].fireAt

\* C8: a workflow scheduled with no time, or a time not after the present,
\* runs at once with no timer set; one scheduled for a time t after the
\* present gets a timer and a handle, and no step action of its run is
\* invoked before t.
C8_RunsAtScheduledTime ==
  /\ \A r \in Runs :
       runs[r].origin = "immediate" =>
         runs[r].timer = "none" /\ runs[r].pc # "idle"
  /\ \A tid \in TimerIds :
       timers[tid].state # "unset" => timers[tid].scheduledTime > timers[tid].setAt
  /\ \A r \in Runs :
       (runs[r].origin = "timer" /\ runs[r].invoked # <<>>) =>
         now >= timers[runs[r].timer].scheduledTime

(***************************************************************************)
(* Properties of the fan-out executeAction, checked under SpecFanOut       *)
(***************************************************************************)
\* target i has a connector with the action: executeAction calls it
Callable(f, i) ==
  /\ f.platforms[i] \in ConfiguredSet
  /\ f.action \in ConnectorMethods(f.platforms[i])
\* target i is the last of the targets passed so far that names its platform
LastPassed(f, i) ==
  \A j \in (i + 1)..(f.idx - 1) : f.platforms[j] # f.platforms[i]

\* C9: the fan-out never raises; of the targets passed so far, a configured
\* platform lacking the action has the entry {error: "Action <action> not
\* supported on <platform>"}, a platform whose call rejected has {error:
\* message}, and a platform whose call resolved has the very value its own
\* connector returned, whatever the other platforms did.
C9_FanOutIsolatesFailures ==
  /\ ~fan.raised
  /\ \A i \in 1..Len(fan.platforms) :
       (i < fan.idx /\ fan.platforms[i] \in ConfiguredSet /\ LastPassed(fan, i)) =>
         /\ fan.platforms[i] \in DOMAIN fan.results
         /\ fan.results[fan.platforms[i]] =
              IF Callable(fan, i) THEN fan.outcome[i]
              ELSE ErrorEntry("Action " \o fan.action \o " not supported on "
                                \o fan.platforms[i])
\* a fan-out that ended with the value of a platform called after another
\* platform's call had failed
C9_Witness ==
  /\ fan.pc = "done"
  /\ \E i, j \in DOMAIN fan.outcome :
       /\ i < j
       /\ fan.platforms[i] # fan.platforms[j]
       /\ fan.outcome[i].kind = "error"
       /\ fan.results[fan.platforms[i]].kind = "error"
       /\ fan.results[fan.platforms[j]] = ValueEntry("v1")

\* C10: while executeAction awaits, the call of every targeted platform that
\* has the action has been started, none waiting for another to finish; and
\* it returns only once every such call has come to its outcome.
C10_FanOutCallsConcurrent ==
  /\ fan.pc = "await" =>
       \A i \in 1..Len(fan.platforms) :
         Callable(fan, i) => \E k \in 1..Len(fan.started) : fan.started[k] = i
  /\ fan.pc = "done" =>
       \A i \in 1..Len(fan.platforms) : Callable(fan, i) => i \in DOMAIN fan.outcome

(***************************************************************************)
(* Properties of AgentExecutor.execute, checked under SpecExecutor         *)
(***************************************************************************)
IsFunction(action) == action \in AgentActions[ExecutorAgent]
SuccessTrace ==
  <<"beforeExecution", "rateCheck", "invoke", "record", "afterExecution", "return">>
FailureTrace ==
  <<"beforeExecution", "rateCheck", "invoke", "record", "executionError">>

C11_FailureRethrown ==
  \A c \in Slots :
    exec.call[c].raised # NoError =>
      /\ exec.call[c].pc = "done"
      /\ exec.call[c].trace = FailureTrace
      /\ exec.call[c].outcome = Rejected(exec.call[c].raised)
C11_FailureRecorded ==
  \A c \in Slots :
    exec'.call[c].raised # exec.call[c].raised =>
      exec'.executionHistory =
        Append(exec.executionHistory,
               FailureRecord(exec.call[c].action, exec'.call[c].raised))
\* C11 as claimed: when the agent action of an execute call fails with e, the
\* call pushes one history record with success false and the message of e,
\* then emits executionError, then rejects with e itself; it never returns.
C11_ActionFailureReraised ==
  []C11_FailureRethrown /\ [][C11_FailureRecorded]_vars

C12_ReturnedInOrder ==
  \A c \in Slots :
    /\ exec.call[c].outcome.kind = "returned" => exec.call[c].trace = SuccessTrace
    /\ \A i \in DOMAIN exec.call[c].trace :
         exec.call[c].trace[i] = "invoke" =>
           i = 3 /\ SubSeq(exec.call[c].trace, 1, 2) = <<"beforeExecution", "rateCheck">>
    /\ exec.call[c].pc = "action" => exec.call[c].trace = SubSeq(SuccessTrace, 1, 3)
C12_ReturnStep ==
  \A c \in Slots :
    /\ (exec'.call[c].outcome.kind = "returned" /\ exec.call[c].outcome.kind # "returned") =>
         /\ exec.call[c].pc = "action"
         /\ exec'.executionHistory =
              Append(exec.executionHistory,
                     SuccessRecord(exec.call[c].action, exec'.call[c].outcome.value))
    /\ (exec'.call[c].pc = "action" /\ exec.call[c].pc # "action") =>
         exec.call[c].pc = "rateCheck"
\* C12: an execute call that has returned a result did, in this order: emit
\* beforeExecution, get the limiter's check resolved, invoke the agent action,
\* push the success record (with the result it returns), emit afterExecution,
\* return; and the agent action is invoked only by the step in which the
\* limiter's check of this call resolves.
C12_SuccessfulCallOrder ==
  []C12_ReturnedInOrder /\ [][C12_ReturnStep]_vars
\* a call returned while an observer that throws watches executionError
C12_Witness ==
  /\ exec.call["direct"].outcome.kind = "returned"
  /\ exec.call["direct"].outcome.value = NaN
  /\ "executionError" \in exec.throwing

C13_NotImplemented ==
  /\ \A c \in Slots :
       (exec.call[c].pc # "idle" /\ ~IsFunction(exec.call[c].action)) =>
         /\ exec.call[c].pc = "done"
         /\ exec.call[c].outcome = Rejected(ActionNotImplemented(exec.call[c].action))
         /\ exec.call[c].trace = <<>>
         /\ exec.call[c].raised = NoError
  /\ \A i \in DOMAIN exec.executionHistory : IsFunction(exec.executionHistory[i].action)
C13_NoRecord ==
  (exec'.call["direct"] # exec.call["direct"] /\ ~IsFunction(exec'.call["direct"].action)) =>
    exec'.executionHistory = exec.executionHistory
\* C13: an execute call naming an action that is no function of the agent
\* is rejected with "Action not implemented" and did nothing else: it emitted
\* no event, did not ask the limiter, ran no agent code, and the history is
\* as it was (no record ever names such an action).
C13_ActionNotImplementedNoEffect ==
  []C13_NotImplemented /\ [][C13_NoRecord]_vars
\* such a call made while the history holds a record and an observer that
\* throws watches beforeExecution
C13_Witness ==
  /\ exec.call["direct"].pc = "done" /\ exec.call["direct"].action = "dance"
  /\ Len(exec.executionHistory) = 1
  /\ "beforeExecution" \in exec.throwing

\* C14 as claimed: whatever the observers do, a call that emitted
\* beforeExecution goes on to the limiter and the action, and no call ends
\* with anything but the action's result or the failure of the action (or of
\* the limiter): never with what an observer threw.
C14_ObserversCannotAlter ==
  \A c \in Slots :
    exec.call[c].pc = "done" =>
      /\ \A event \in Events : exec.call[c].outcome.error # ObserverError(event)
      /\ exec.call[c].trace # <<>> => Len(exec.call[c].trace) > 1
      /\ \A i \in DOMAIN exec.call[c].trace :
           exec.call[c].trace[i] = "afterExecution" =>
             exec.call[c].outcome.kind = "returned"

(***************************************************************************)
(* Properties of executeSequence, checked under SpecSequence               *)
(***************************************************************************)
\* C15 as claimed: executeSequence invokes the actions in list order, each
\* with the context threaded from the one before (lastAction, lastResult),
\* returns the list of all results, and when an action fails it rejects with
\* that failure, having invoked no later action.
C15_SequenceInOrderFailFast ==
  LET seq == exec.seq
      call == exec.call["sequence"]
  IN /\ Len(seq.invoked) <= Len(seq.actions)
     /\ \A i \in DOMAIN seq.invoked :
          /\ seq.invoked[i].action = seq.actions[i]
          /\ i > 1 => i - 1 \in DOMAIN seq.results
          /\ seq.invoked[i].context =
               IF i = 1 THEN EmptyContext
               ELSE [lastAction |-> seq.actions[i - 1], lastResult |-> seq.results[i - 1]]
     /\ seq.outcome.kind = "returned" =>
          /\ seq.outcome.value = seq.results
          /\ Len(seq.results) = Len(seq.actions)
          /\ Len(seq.invoked) = Len(seq.actions)
     /\ (seq.pc # "idle" /\ call.raised # NoError) =>
          /\ seq.pc = "done"
          /\ seq.outcome = Rejected(call.raised)
          /\ Len(seq.invoked) = seq.k
          /\ Len(seq.results) = seq.k - 1

(***************************************************************************)
(* Properties of the execution history, checked under SpecHistory          *)
(***************************************************************************)
Min(a, b) == IF a < b THEN a ELSE b
\* the m records pushed last, the last one first
MostRecentFirst(history, m) == [i \in 1..m |-> history[Len(history) + 1 - i]]

C16_ViewIsMostRecent ==
  (exec.view.given /\ exec.view.limit.given) =>
    exec.view.records =
      MostRecentFirst(exec.view.of, Min(exec.view.limit.n, Len(exec.view.of)))
C16_ReadKeepsHistory ==
  exec'.view # exec.view => exec'.executionHistory = exec.executionHistory
\* C16 as claimed: getExecutionHistory(limit), limit >= 0, returns the
\* min(limit, length) records pushed last, the last one first, and leaves the
\* history as it is (so after clearExecutionHistory, which empties it, the
\* empty list until a call pushes a record).
C16_HistoryViewBounded ==
  []C16_ViewIsMostRecent /\ [][C16_ReadKeepsHistory]_vars

(***************************************************************************)
(* Properties of WorkflowRegistry, checked under SpecRegistry              *)
(***************************************************************************)
C17_PresenceTracked ==
  /\ DOMAIN reg.workflows = reg.present
  /\ ListWorkflows(reg) = reg.present
  /\ \A name \in RegistryNames :
       /\ RegistryGet(reg, name) = JsNull <=> name \notin reg.present
       /\ name \in reg.present => RegistryGet(reg, name).name = name
C17_RegisterStep ==
  \A name \in RegistryNames, steps \in StepLists :
    RegisterCall(name, steps) =>
      /\ reg'.threw # NoError <=> name \in reg.present
      /\ name \in reg.present =>
           /\ reg'.threw = AlreadyRegistered(name)
           /\ RegistryGet(reg', name) = RegistryGet(reg, name)
           /\ StepValues(reg', name) = StepValues(reg, name)
      /\ name \notin reg.present =>
           /\ name \in reg'.present
           /\ StepsOf(reg', name) = steps
C17_RemoveStep ==
  \A name \in RegistryNames :
    (RemoveCall(name) /\ reg'.threw = NoError) =>
      /\ name \in reg.present
      /\ RegistryGet(reg', name) = JsNull
      /\ name \notin ListWorkflows(reg')
      /\ reg'.present = reg.present \ {name}
      /\ \A steps \in StepLists :
           RegistryRegister(reg', name, steps, now).threw = NoError
\* C17: the names the registry holds are exactly those registered (by
\* register, clone or compose) and not removed since; register(n, s') throws
\* "already registered" exactly when n is among them, and get(n) then gives
\* the definition it gave before; after remove(n) returned, get(n) is null,
\* listWorkflows() does not list n, and register(n, s) succeeds.
C17_NamePresenceExact ==
  []C17_PresenceTracked /\ [][C17_RegisterStep /\ C17_RemoveStep]_vars
\* register has just failed on a clone whose source was removed since
C17_Witness ==
  /\ reg.threw = AlreadyRegistered("c")
  /\ "c" \in reg.present /\ reg.workflows["c"].clonedFrom = "a"
  /\ "a" \notin reg.present

\* the member lists, one after the other, from the last member back
RECURSIVE Concat(_, _)
Concat(rg, names) ==
  IF names = <<>> THEN <<>>
  ELSE Concat(rg, SubSeq(names, 1, Len(names) - 1)) \o StepsOf(rg, names[Len(names)])
C19_ComposeStep ==
  \A newName \in CopyNames, workflowNames \in MemberLists :
    (/\ newName \notin reg.present
     /\ \A k \in DOMAIN workflowNames : workflowNames[k] \in reg.present
     /\ ComposeCall(newName, workflowNames)) =>
      /\ reg'.threw = NoError
      /\ newName \in reg'.present
      /\ StepsOf(reg', newName) = Concat(reg, workflowNames)
      /\ reg'.objects = reg.objects
      /\ \A n \in reg.present :
           /\ reg'.workflows[n] = reg.workflows[n]
           /\ StepsOf(reg', n) = StepsOf(reg, n)
\* C19: compose(newName, [n1..nk]) with every ni registered and newName free
\* registers newName with the step list n1.steps ++ ... ++ nk.steps, in that
\* order, and leaves every definition there was, its step list and its step
\* objects as they were.
C19_ComposeConcatenates == [][C19_ComposeStep]_vars
\* a composite of two members with different steps
C19_Witness ==
  /\ reg.threw = NoError
  /\ {"a", "b", "c"} \subseteq reg.present
  /\ reg.workflows["c"].clonedFrom = ""
  /\ StepsOf(reg, "a") = <<"o2">> /\ StepsOf(reg, "b") = <<"o1">>
  /\ StepsOf(reg, "c") = <<"o2", "o1">>

\* the first member name the registry does not hold
FirstMissing(rg, names) ==
  names[CHOOSE k \in DOMAIN names :
          /\ names[k] \notin rg.present
          /\ \A m \in 1..(k - 1) : names[m] \in rg.present]
C20_FailureKeeps ==
  reg'.threw # NoError =>
    /\ reg'.workflows = reg.workflows
    /\ reg'.arrays = reg.arrays
    /\ reg'.objects = reg.objects
    /\ reg'.present = reg.present
C20_FailureKinds ==
  /\ \A name \in RegistryNames, steps \in StepLists :
       (name \notin reg.present /\ UpdateCall(name, steps)) =>
         reg'.threw = DoesNotExist(name)
  /\ \A name \in RegistryNames :
       (name \notin reg.present /\ RemoveCall(name)) => reg'.threw = DoesNotExist(name)
  /\ \A sourceName \in RegistryNames, targetName \in CopyNames :
       CloneCall(sourceName, targetName) =>
         /\ sourceName \notin reg.present => reg'.threw = SourceDoesNotExist(sourceName)
         /\ (sourceName \in reg.present /\ targetName \in reg.present) =>
              reg'.threw = TargetAlreadyExists(targetName)
  /\ \A newName \in CopyNames, workflowNames \in MemberLists :
       ComposeCall(newName, workflowNames) =>
         IF \E k \in DOMAIN workflowNames : workflowNames[k] \notin reg.present
         THEN reg'.threw = DoesNotExist(FirstMissing(reg, workflowNames))
         ELSE newName \in reg.present => reg'.threw = AlreadyRegistered(newName)
\* C20: a call on the registry that throws leaves every definition, step
\* list and step object as it was; update and remove of a name not held
\* throw "does not exist", clone throws "source does not exist" for a source
\* not held and otherwise "target already exists" for a target held, compose
\* throws "does not exist" for the first member not held and otherwise
\* "already registered" for a newName held.
C20_FailedCallsChangeNothing == [][C20_FailureKeeps /\ C20_FailureKinds]_vars
\* compose has just failed on its second member, the first one being held
C20_Witness ==
  /\ reg.threw = DoesNotExist("b")
  /\ reg.present = {"a", "c"}
  /\ reg.workflows["c"].clonedFrom = "a"

(***************************************************************************)
(* Properties of clone, checked under SpecClone                            *)
(***************************************************************************)
\* a caller changes the step list get(name) gave it, or one of its steps
Mutates(name) ==
  \/ \E o \in StepObjects : PushStep(name, o)
  \/ PopStep(name)
  \/ ReverseSteps(name)
  \/ \E i \in 1..(MaxSteps + 1), action \in StepActions : SetStepAction(name, i, action)
C18_MutationStep ==
  \A a, b \in RegistryNames :
    (/\ a # b /\ {a, b} \subseteq reg.present
     /\ reg.workflows[b].clonedFrom = a
     /\ Mutates(a) \/ Mutates(b)) =>
      \/ StepValues(reg', a) = StepValues(reg, a)
      \/ StepValues(reg', b) = StepValues(reg, b)
\* C18 as claimed: once b is a clone of a, whatever a caller does to the
\* step list of one of them (adding, removing, reordering entries, setting a
\* field of a step) leaves the steps of the other, as get gives them, as
\* they were: no such change shows in both.
C18_CloneIsDeepCopy == [][C18_MutationStep]_vars

(***************************************************************************)
(* Properties of VectorMemory.delete, checked under SpecBulk               *)
(***************************************************************************)
\* the keys of the records stored, and of the documents of the vector store
StoredKeys(m) == {Backend(m)[i].value.key : i \in DOMAIN Backend(m)}
IndexKeys(m) ==
  IF m.vectorStore = 0 THEN {}
  ELSE {m.indexes[m.vectorStore][i].metadata.key : i \in DOMAIN m.indexes[m.vectorStore]}
        \ {""}
\* C21 as claimed: once delete(k) of a stored key has returned, the
\* similarity search space is exactly the other stored records: no document
\* of the index has key k, every key still stored has one, and k is stored
\* no more (retrieve(k) gives null).
C21_DeleteLeavesTheOthers ==
  LET c == mem.calls["c1"]
  IN (c.pc = "done" /\ c.op = "delete" /\ c.prior > 0 /\ c.outcome.kind = "returned") =>
       /\ c.key \notin IndexKeys(mem)
       /\ StoredKeys(mem) \subseteq IndexKeys(mem)
       /\ c.key \notin StoredKeys(mem)

(***************************************************************************)
(* Properties of the rebuild, checked under SpecRebuild                    *)
(***************************************************************************)
\* the documents a reader may see while the delete in c1 is in flight: those
\* of the vector store as it was when the delete began and, once delete has
\* assigned the new store, those of the new store
RebuildViews ==
  LET d == mem.calls["c1"]
  IN {d.pre.docs} \cup (IF d.swapped THEN {d.docs} ELSE {})
DeleteInFlight ==
  LET d == mem.calls["c1"]
  IN d.op = "delete" /\ d.pc \notin {"idle", "done"} /\ d.pre.known
ReturnedVersion(c) ==
  IF c.outcome.kind = "returned" /\ "version" \in DOMAIN c.outcome.value
  THEN c.outcome.value.version ELSE 0
\* C23 as claimed: a store, or an update of a key that is not stored, leaves
\* a record of version 1 under the key; an update (of the MemoryManager or of
\* the VectorMemory) of a key that is stored leaves and returns a record
\* whose version is greater than the one stored when the update began.
C23_VersionGrows ==
  LET c == mem.calls["c1"]
  IN (c.pc = "done" /\ c.outcome.kind = "returned") =>
       /\ (c.op = "store" \/ (c.op \in {"update", "mm.update"} /\ c.prior = 0)) =>
            StoredVersion(mem, c.key) = 1
       /\ (c.op \in {"update", "mm.update"} /\ c.prior > 0) =>
            /\ StoredVersion(mem, c.key) > c.prior
            /\ ReturnedVersion(c) > c.prior
\* C24 as claimed: the backend is chosen once: all the operations issued on
\* the MemoryManager, those issued right after construction included, run
\* against one and the same backend (the remote client or the Map).
C24_OneBackend == Cardinality(mem.used) <= 1

(***************************************************************************)
(* Properties of the connectors, checked under SpecConnectors              *)
(***************************************************************************)
\* connected is true exactly from a connect() to the next disconnect()
ConnectedSinceConnect ==
  \A platform \in ConnectorClasses :
    conn.of[platform].connected <=> conn.of[platform].since = "connect"
C26_CreateUsesRegistered ==
  fac.created.registered # "" => fac.created.class = fac.created.registered

(***************************************************************************)
(* Properties of the executors of the runs, checked under Spec             *)
(***************************************************************************)
\* the AgentExecutor objects the runs made, each with the agent it wraps
ExecutorInstances ==
  UNION {{[agentId |-> runs[r].executors[k].agentId, instance |-> <<r, k>>] :
            k \in DOMAIN runs[r].executors} : r \in Runs}
\* C27 as claimed: the steps bound to one agentId, of one run and of several
\* runs, all execute through one and the same AgentExecutor object.
C27_OneExecutorPerAgent ==
  \A e1, e2 \in ExecutorInstances : e1.agentId = e2.agentId => e1.instance = e2.instance
\* error e names x: the message, built from its parts, has x in it
Names(e, x) == \E k \in DOMAIN e : e[k] = x
\* C28 as claimed: a call of executeWorkflow that has ended either returned
\* its context (the run completed or aborted) and threw nothing, or threw an
\* error which, when a step failed, names the id of that step, the id of its
\* agent and its action.
C28_ContextOrIdentifyingError ==
  \A r \in Runs :
    runs[r].pc = "done" =>
      \/ runs[r].status \in {"completed", "aborted"} /\ runs[r].error = NoError
      \/ /\ runs[r].status = "failed" /\ runs[r].error # NoError
         /\ runs[r].idx >= 1 =>
              LET step == runs[r].steps[runs[r].idx]
              IN /\ Names(runs[r].error, step.id)
                 /\ Names(runs[r].error, step.agentId)
                 /\ Names(runs[r].error, step.action)
\* C29 as claimed: whatever runs there were, the objects of the caller's
\* seed context are as they were before the calls: the results mapping of
\* the seed holds what it held, and nothing else.
C29_SeedUntouched == objs["caller"] = CallerResults

(***************************************************************************)
(* Properties of the deferred schedule, checked under SpecDeferred         *)
(***************************************************************************)
\* setting the timer starts no run, whether the name is registered or not
C30_SchedulingStep ==
  \A tid \in TimerIds :
    (timers[tid].state = "unset" /\ timers'[tid].state = "pending") => runs' = runs
\* the run the timer callback starts takes the definition registered under
\* the name, and the agents registered, as they are when it fires
C30_FiringStep ==
  \A tid \in TimerIds :
    (timers[tid].state = "pending" /\ timers'[tid].state = "fired") =>
      LET n == timers[tid].workflowName
          run == runs'[FreeRun]
      IN /\ run.origin = "timer" /\ run.timer = tid
         /\ IF n \notin DOMAIN workflows
            THEN run.status = "failed" /\ run.error = <<"Workflow not found", n>>
            ELSE /\ run.steps = workflows[n]
                 /\ run.error[1] # "Workflow not found"
                 /\ run.error[1] = "Agent not found" <=>
                      workflows[n][1].agentId \notin agents
\* C30: scheduleWorkflow for a later time sets the timer and starts nothing,
\* whether the name is registered or not; when the timer fires, the run is
\* started on the definition and the agents registered at that moment.
C30_ResolvedAtFiring == [][C30_SchedulingStep /\ C30_FiringStep]_vars
\* a name that was not registered when it was scheduled has run to the end,
\* on a definition registered before the timer fired
C30_Witness ==
  \E tid \in TimerIds, r \in Runs :
    /\ timers[tid].state = "fired"
    /\ timers[tid].workflowName \notin DOMAIN timers[tid].wfs
    /\ runs[r].origin = "timer" /\ runs[r].timer = tid
    /\ runs[r].status = "completed"

(***************************************************************************)
(* Properties of chainAgents, checked under SpecChain                      *)
(***************************************************************************)
\* C31 as claimed: no chainAgents call fails with "already registered", and
\* the name of the last call holds one memorize:true step per agent id.
C31_ChainsNeverCollide ==
  /\ chain.threw = NoError
  /\ chain.calls > 0 =>
       /\ chain.name \in DOMAIN workflows
       /\ \A k \in DOMAIN workflows[chain.name] : workflows[chain.name][k].memorize

(***************************************************************************)
(* One record per execute call, checked under SpecExecutor                 *)
(***************************************************************************)
\* how often execute pushed a record during the call of slot c
RecordsPushed(c) ==
  Cardinality({i \in DOMAIN exec.call[c].trace : exec.call[c].trace[i] = "record"})

\* C32 as claimed: whatever the observers do, a finished execute call whose
\* action is a function of the agent has pushed exactly one record into the
\* history, never none and never two.
C32_ExactlyOneRecord ==
  \A c \in Slots :
    (exec.call[c].pc = "done" /\ IsFunction(exec.call[c].action)) =>
      RecordsPushed(c) = 1

(***************************************************************************)
(* The index against the key-value store, checked under SpecMemory         *)
(***************************************************************************)
\* the documents of the vector store whose metadata names key
DocumentsOf(m, key) ==
  IF m.vectorStore = 0 THEN {}
  ELSE {i \in DOMAIN m.indexes[m.vectorStore] :
          m.indexes[m.vectorStore][i].metadata.key = key}
\* the data retrieve reads back from what is stored under key
StoredData(m, key) ==
  LET i == CHOOSE i \in DOMAIN Backend(m) : Backend(m)[i].value.key = key
  IN ItemParse(Backend(m)[i].value).data

\* C33 as claimed: once a store, update or delete of the VectorMemory has
\* returned, the index holds exactly one document for each key the key-value
\* store holds, made from the data stored under the key, and no document for
\* any other key.
C33_IndexMatchesStore ==
  LET c == mem.calls["c1"]
  IN (c.pc = "done" /\ c.op \in {"store", "update", "delete"}
      /\ c.outcome.kind = "returned") =>
       /\ IndexKeys(mem) \subseteq StoredKeys(mem)
       /\ \A key \in StoredKeys(mem) :
            /\ Cardinality(DocumentsOf(mem, key)) = 1
            /\ \A i \in DocumentsOf(mem, key) :
                 mem.indexes[mem.vectorStore][i].pageContent = Text(StoredData(mem, key))

(***************************************************************************)
(* store against delete of another key, checked under SpecInterleaved      *)
(***************************************************************************)
\* C34 as claimed: once a delete of k1 and a store of k2 that ran
\* interleaved have both returned, k2 is in the key-value store and has a
\* document in the index.
C34_ConcurrentStoreSurvives ==
  LET d == mem.calls["c1"]
      s == mem.calls["c2"]
  IN (/\ d.pc = "done" /\ d.op = "delete" /\ d.outcome.kind = "returned"
      /\ s.pc = "done" /\ s.op = "store" /\ s.outcome.kind = "returned") =>
       /\ KeyName(2) \in StoredKeys(mem)
       /\ KeyName(2) \in IndexKeys(mem)

(***************************************************************************)
(* Namespaces over one backing store, checked under SpecShared             *)
(***************************************************************************)
\* C35 as claimed: retrieve and list of a manager return only records that
\* were stored through a manager of the same namespace, and delete removes
\* only such a record.
C35_NamespacesIsolated ==
  /\ \A i \in DOMAIN stores.last.returned :
       stores.last.returned[i].by = stores.last.namespace
  /\ \A i \in DOMAIN stores.last.removed :
       stores.last.removed[i].by = stores.last.namespace

(***************************************************************************)
(* Results of a run, checked under SpecComposite                           *)
(***************************************************************************)
\* C36 as claimed: once a run given a context without results has returned,
\* having executed k steps, its results hold k entries, the entry of each
\* executed step is the result of that step, and each step it memorized has
\* a memory record of its own.
C36_OneResultPerStep ==
  \A r \in Runs :
    (runs[r].pc = "done" /\ runs[r].status \in {"completed", "aborted"}
     /\ runs[r].ref = r) =>
      /\ Cardinality(DOMAIN objs[r]) = Len(runs[r].wrote)
      /\ \A k \in DOMAIN runs[r].wrote :
           LET i == runs[r].wrote[k]
           IN objs[r][runs[r].steps[i].id] = [value |-> runs[r].res[i], by |-> <<r, i>>]
      /\ \A i \in runs[r].stored :
           client[GetKey(Namespace, WorkflowKey(runs[r].workflowName,
                                                runs[r].steps[i].id))].by = <<r, i>>

(***************************************************************************)
(* The entries of the result map, checked under SpecFanOut                 *)
(***************************************************************************)
\* C37 as claimed: the result map executeAction returns has an entry for
\* each platform it was to target, and for no other.
C37_EntryPerTarget ==
  fan.pc = "done" =>
    DOMAIN fan.results = {fan.platforms[i] : i \in 1..Len(fan.platforms)}

(***************************************************************************)
(* Mentions processed by the watchdog, checked under SpecWatchdog          *)
(***************************************************************************)
\* how often _processMention was called with the mention of this id
TimesProcessed(id) ==
  Cardinality({i \in DOMAIN dog.processed : dog.processed[i] = id})

\* C38 as claimed: whatever the interleaving of deliveries and cycles, and
\* however often a mention is delivered, the mention of each id is processed
\* at most once.
C38_ProcessedAtMostOnce == \A id \in MentionIds : TimesProcessed(id) <= 1

(***************************************************************************)
(* The next content time, checked under SpecScheduler                      *)
(***************************************************************************)
\* C39 as claimed: the constructor and scheduleNextContent always come to an
\* end, never by exhausting the stack, and what they yield is a schedule item
\* whose time is later than the time of the call.
C39_YieldsLaterItem ==
  /\ sched.pc # "threw"
  /\ (sched.pc = "ready" /\ sched.op \in {"constructor", "scheduleNextContent"}) =>
       /\ sched.returned # NoItem
       /\ sched.returned.time > sched.asked
       /\ sched.nextScheduledTime = sched.returned
====
